---- MODULE Spec2Model ----
(***************************************************************************)
(* Verification model of the PMBOK guard-rail engine                       *)
(* (src/MBA-USP-TCC/pmbok_guard_rails.py, class PMBOKGuardRails), of the   *)
(* schedule and cost agents (schedule_agent_updated.py,                    *)
(* cost_agent_updated.py) and of the status text processor                 *)
(* (Agentes/nlp_processor.py).                                             *)
(*                                                                         *)
(* Python values are modelled as tagged records [t, n, s]:                 *)
(*   None        [t |-> "none", n |-> 0,   s |-> ""]                       *)
(*   bool        [t |-> "bool", n |-> 0/1, s |-> ""]                       *)
(*   int, float  [t |-> "num",  n |-> the number in thousandths, s |-> ""] *)
(*   str         [t |-> "str",  n |-> its length, s |-> the text]          *)
(*   list        [t |-> "list", n |-> its length, s |-> ""]                *)
(* A data record (a Python dict) is a function whose DOMAIN is the set of  *)
(* keys present.  Texts that the code inspects character by character      *)
(* (rule names, recommendations) are sequences of one-character strings;   *)
(* texts that are only copied (ids, messages) are TLA+ strings.            *)
(* The validation_date timestamps of the results are left out: they are    *)
(* the wall clock, read by nothing in the engine.                          *)
(***************************************************************************)
EXTENDS Integers, Sequences, FiniteSets, TLC

VARIABLES
    rules,                      \* self.rules: domain -> ordered rule catalog
    domain,                     \* the domain argument of the evaluation
    data,                       \* the data record argument
    recommendations,            \* the recommendation list argument
    pc,                         \* position of the caller
    validation_results,         \* what validate returned
    recommendation_validation,  \* outcome of validate_recommendations
    topic,                      \* the topic argument of the coverage check
    covered,                    \* what _topic_covered_in_recommendations returned
    file,                       \* the status file an agent is given
    index,                      \* the index argument of a health evaluation
    analysis,                   \* what the agent's method returned
    report,                     \* what generate_report returned
    workers                     \* the evaluations in progress on a shared engine

vars == <<rules, domain, data, recommendations, pc, validation_results,
          recommendation_validation, topic, covered, file, index, analysis,
          report, workers>>

\* the variables of the guard-rail engine and its caller, and of the agents
engineVars == <<rules, domain, data, recommendations, validation_results,
                recommendation_validation, topic, covered, workers>>
agentVars == <<file, index, analysis, report>>

----------------------------------------------------------------------------
(* Python values *)

NoneV == [t |-> "none", n |-> 0, s |-> ""]
BoolV(b) == [t |-> "bool", n |-> IF b THEN 1 ELSE 0, s |-> ""]
\* the decimal number i.m (m in thousandths): Dec(0, 800) is 0.8
Dec(i, m) == i * 1000 + m
NumV(x) == [t |-> "num", n |-> x, s |-> ""]
StrV(text) == [t |-> "str", n |-> Len(text), s |-> text]
ListV(len) == [t |-> "list", n |-> len, s |-> ""]

\* bool(v)
Truthy(v) ==
    CASE v.t = "none" -> FALSE
      [] v.t = "bool" -> v.n = 1
      [] v.t = "num"  -> v.n # 0
      [] v.t = "str"  -> v.n > 0
      [] v.t = "list" -> v.n > 0

\* the number a bool or a number stands for in arithmetic (True is 1)
AsNumber(v) == IF v.t = "bool" THEN Dec(v.n, 0) ELSE v.n
IsNumeric(v) == v.t \in {"num", "bool"}

\* dict.get(key) and dict.get(key, default)
Get(d, key) == IF key \in DOMAIN d THEN d[key] ELSE NoneV
GetDefault(d, key, default) == IF key \in DOMAIN d THEN d[key] ELSE default

----------------------------------------------------------------------------
(* Outcomes of a rule condition: "true", "false", or "raise" when the     *)
(* lambda raises (TypeError on a value of the wrong type).                 *)

\* a and b, with Python's left-to-right short circuit
AndThen(a, b) == IF a = "true" THEN b ELSE a
Outcome(b) == IF b THEN "true" ELSE "false"

\* v is not None
IsNotNone(v) == Outcome(v.t # "none")
\* v < k and v > k for a numeric literal k: TypeError on str and list
LessThan(v, k) == IF IsNumeric(v) THEN Outcome(AsNumber(v) < k) ELSE "raise"
GreaterThan(v, k) == IF IsNumeric(v) THEN Outcome(AsNumber(v) > k) ELSE "raise"
\* a > 0.1 * b: 0.1 * b raises on str and list, the comparison on a str or
\* list a.  The product is compared exactly, a > b/10 iff 10a > b; on the
\* whole day counts drawn below the float product 0.1 * b decides alike.
GreaterThanTenth(a, b) ==
    IF IsNumeric(a) /\ IsNumeric(b) THEN Outcome(10 * AsNumber(a) > AsNumber(b))
    ELSE "raise"
\* len(v) > 0: TypeError on a number or a bool
LenPositive(v) == IF v.t \in {"str", "list"} THEN Outcome(v.n > 0) ELSE "raise"

----------------------------------------------------------------------------
(* The rule catalogs.  A rule is [id, name, action, message]; its          *)
(* condition lambda is Condition(rule, data) below.  The description       *)
(* field, read by no method, is left out.                                  *)

\* "Notificação para SPI crítico" (pmbok_guard_rails.py:35)
Name_SCH_001 ==
    <<"N","o","t","i","f","i","c","a","ç","ã","o"," ","p","a","r","a"," ","S","P","I"," ","c",
      "r","í","t","i","c","o">>

\* "Plano de recuperação para SPI baixo" (pmbok_guard_rails.py:43)
Name_SCH_002 ==
    <<"P","l","a","n","o"," ","d","e"," ","r","e","c","u","p","e","r","a","ç","ã","o"," ","p",
      "a","r","a"," ","S","P","I"," ","b","a","i","x","o">>

\* "Aprovação para extensão de prazo" (pmbok_guard_rails.py:51)
Name_SCH_003 ==
    <<"A","p","r","o","v","a","ç","ã","o"," ","p","a","r","a"," ","e","x","t","e","n","s","ã",
      "o"," ","d","e"," ","p","r","a","z","o">>

\* "Revisão da linha de base para replanejamento" (pmbok_guard_rails.py:59)
Name_SCH_004 ==
    <<"R","e","v","i","s","ã","o"," ","d","a"," ","l","i","n","h","a"," ","d","e"," ","b","a",
      "s","e"," ","p","a","r","a"," ","r","e","p","l","a","n","e","j","a","m","e","n","t","o">>

\* "Monitoramento diário para tarefas críticas" (pmbok_guard_rails.py:67)
Name_SCH_005 ==
    <<"M","o","n","i","t","o","r","a","m","e","n","t","o"," ","d","i","á","r","i","o"," ","p",
      "a","r","a"," ","t","a","r","e","f","a","s"," ","c","r","í","t","i","c","a","s">>

\* "Notificação para CPI crítico" (pmbok_guard_rails.py:85)
Name_COST_001 ==
    <<"N","o","t","i","f","i","c","a","ç","ã","o"," ","p","a","r","a"," ","C","P","I"," ","c",
      "r","í","t","i","c","o">>

\* "Plano de recuperação para CPI baixo" (pmbok_guard_rails.py:93)
Name_COST_002 ==
    <<"P","l","a","n","o"," ","d","e"," ","r","e","c","u","p","e","r","a","ç","ã","o"," ","p",
      "a","r","a"," ","C","P","I"," ","b","a","i","x","o">>

\* "Aprovação para gastos adicionais" (pmbok_guard_rails.py:101)
Name_COST_003 ==
    <<"A","p","r","o","v","a","ç","ã","o"," ","p","a","r","a"," ","g","a","s","t","o","s"," ",
      "a","d","i","c","i","o","n","a","i","s">>

\* "Aprovação para realocação de orçamento" (pmbok_guard_rails.py:109)
Name_COST_004 ==
    <<"A","p","r","o","v","a","ç","ã","o"," ","p","a","r","a"," ","r","e","a","l","o","c","a",
      "ç","ã","o"," ","d","e"," ","o","r","ç","a","m","e","n","t","o">>

\* "Recálculo semanal da EAC" (pmbok_guard_rails.py:117)
Name_COST_005 ==
    <<"R","e","c","á","l","c","u","l","o"," ","s","e","m","a","n","a","l"," ","d","a"," ","E",
      "A","C">>

\* "Documentação formal para mudanças de escopo" (pmbok_guard_rails.py:135)
Name_SCOPE_001 ==
    <<"D","o","c","u","m","e","n","t","a","ç","ã","o"," ","f","o","r","m","a","l"," ","p","a",
      "r","a"," ","m","u","d","a","n","ç","a","s"," ","d","e"," ","e","s","c","o","p","o">>

\* "Revisão da linha de base para impacto no cronograma" (pmbok_guard_rails.py:143)
Name_SCOPE_002 ==
    <<"R","e","v","i","s","ã","o"," ","d","a"," ","l","i","n","h","a"," ","d","e"," ","b","a",
      "s","e"," ","p","a","r","a"," ","i","m","p","a","c","t","o"," ","n","o"," ","c","r","o",
      "n","o","g","r","a","m","a">>

\* "Revisão do orçamento para impacto no custo" (pmbok_guard_rails.py:151)
Name_SCOPE_003 ==
    <<"R","e","v","i","s","ã","o"," ","d","o"," ","o","r","ç","a","m","e","n","t","o"," ","p",
      "a","r","a"," ","i","m","p","a","c","t","o"," ","n","o"," ","c","u","s","t","o">>

\* "Revisão do plano para múltiplas mudanças" (pmbok_guard_rails.py:159)
Name_SCOPE_004 ==
    <<"R","e","v","i","s","ã","o"," ","d","o"," ","p","l","a","n","o"," ","p","a","r","a"," ",
      "m","ú","l","t","i","p","l","a","s"," ","m","u","d","a","n","ç","a","s">>

\* "Análise de impacto para mudanças de escopo" (pmbok_guard_rails.py:167)
Name_SCOPE_005 ==
    <<"A","n","á","l","i","s","e"," ","d","e"," ","i","m","p","a","c","t","o"," ","p","a","r",
      "a"," ","m","u","d","a","n","ç","a","s"," ","d","e"," ","e","s","c","o","p","o">>

\* "Planos de mitigação para riscos altos" (pmbok_guard_rails.py:185)
Name_RISK_001 ==
    <<"P","l","a","n","o","s"," ","d","e"," ","m","i","t","i","g","a","ç","ã","o"," ","p","a",
      "r","a"," ","r","i","s","c","o","s"," ","a","l","t","o","s">>

\* "Planos de contingência para riscos críticos" (pmbok_guard_rails.py:193)
Name_RISK_002 ==
    <<"P","l","a","n","o","s"," ","d","e"," ","c","o","n","t","i","n","g","ê","n","c","i","a",
      " ","p","a","r","a"," ","r","i","s","c","o","s"," ","c","r","í","t","i","c","o","s">>

\* "Revisão quinzenal do registro de riscos" (pmbok_guard_rails.py:201)
Name_RISK_003 ==
    <<"R","e","v","i","s","ã","o"," ","q","u","i","n","z","e","n","a","l"," ","d","o"," ","r",
      "e","g","i","s","t","r","o"," ","d","e"," ","r","i","s","c","o","s">>

\* "Notificação para novos riscos altos" (pmbok_guard_rails.py:209)
Name_RISK_004 ==
    <<"N","o","t","i","f","i","c","a","ç","ã","o"," ","p","a","r","a"," ","n","o","v","o","s",
      " ","r","i","s","c","o","s"," ","a","l","t","o","s">>

\* "Monitoramento semanal para riscos de alta exposição" (pmbok_guard_rails.py:217)
Name_RISK_005 ==
    <<"M","o","n","i","t","o","r","a","m","e","n","t","o"," ","s","e","m","a","n","a","l"," ",
      "p","a","r","a"," ","r","i","s","c","o","s"," ","d","e"," ","a","l","t","a"," ","e","x",
      "p","o","s","i","ç","ã","o">>

_load_schedule_rules ==
    <<[id |-> "SCH-001", name |-> Name_SCH_001, action |-> "notify",
       message |-> "ALERTA CRÍTICO: O SPI está abaixo de 0.8, indicando atraso significativo no cronograma. Notifique imediatamente o gerente do projeto."],
      [id |-> "SCH-002", name |-> Name_SCH_002, action |-> "require",
       message |-> "REQUISITO: O SPI está abaixo de 0.9. Um plano de recuperação documentado é necessário."],
      [id |-> "SCH-003", name |-> Name_SCH_003, action |-> "require",
       message |-> "REQUISITO: A extensão de prazo excede 10% da duração original do projeto. Aprovação formal é necessária."],
      [id |-> "SCH-004", name |-> Name_SCH_004, action |-> "require",
       message |-> "REQUISITO: O replanejamento do cronograma requer revisão formal da linha de base."],
      [id |-> "SCH-005", name |-> Name_SCH_005, action |-> "recommend",
       message |-> "RECOMENDAÇÃO: Implemente monitoramento diário para todas as tarefas críticas devido ao SPI baixo."]>>

_load_cost_rules ==
    <<[id |-> "COST-001", name |-> Name_COST_001, action |-> "notify",
       message |-> "ALERTA CRÍTICO: O CPI está abaixo de 0.8, indicando desvio significativo nos custos. Notifique imediatamente o gerente do projeto."],
      [id |-> "COST-002", name |-> Name_COST_002, action |-> "require",
       message |-> "REQUISITO: O CPI está abaixo de 0.9. Um plano de recuperação documentado é necessário."],
      [id |-> "COST-003", name |-> Name_COST_003, action |-> "require",
       message |-> "REQUISITO: Os gastos adicionais excedem 10% do orçamento. Aprovação formal é necessária."],
      [id |-> "COST-004", name |-> Name_COST_004, action |-> "require",
       message |-> "REQUISITO: A realocação de orçamento entre categorias excede 5%. Aprovação formal é necessária."],
      [id |-> "COST-005", name |-> Name_COST_005, action |-> "recommend",
       message |-> "RECOMENDAÇÃO: Recalcule a Estimativa no Término (EAC) semanalmente devido ao CPI baixo."]>>

_load_scope_rules ==
    <<[id |-> "SCOPE-001", name |-> Name_SCOPE_001, action |-> "require",
       message |-> "REQUISITO: Todas as mudanças de escopo requerem documentação formal."],
      [id |-> "SCOPE-002", name |-> Name_SCOPE_002, action |-> "require",
       message |-> "REQUISITO: A mudança de escopo tem impacto significativo no cronograma. Revisão da linha de base é necessária."],
      [id |-> "SCOPE-003", name |-> Name_SCOPE_003, action |-> "require",
       message |-> "REQUISITO: A mudança de escopo tem impacto significativo no custo. Revisão do orçamento é necessária."],
      [id |-> "SCOPE-004", name |-> Name_SCOPE_004, action |-> "require",
       message |-> "REQUISITO: Múltiplas mudanças de escopo foram identificadas. Revisão do plano de gerenciamento do projeto é necessária."],
      [id |-> "SCOPE-005", name |-> Name_SCOPE_005, action |-> "require",
       message |-> "REQUISITO: Todas as mudanças de escopo devem incluir análise de impacto em cronograma e custos."]>>

_load_risk_rules ==
    <<[id |-> "RISK-001", name |-> Name_RISK_001, action |-> "require",
       message |-> "REQUISITO: Todos os riscos de nível 'Alto' requerem planos de mitigação documentados."],
      [id |-> "RISK-002", name |-> Name_RISK_002, action |-> "require",
       message |-> "REQUISITO: Todos os riscos críticos (probabilidade >= 4 e impacto >= 4) requerem planos de contingência."],
      [id |-> "RISK-003", name |-> Name_RISK_003, action |-> "recommend",
       message |-> "RECOMENDAÇÃO: O registro de riscos deve ser revisado pelo menos quinzenalmente."],
      [id |-> "RISK-004", name |-> Name_RISK_004, action |-> "notify",
       message |-> "ALERTA: Novos riscos de nível 'Alto' foram identificados. Notifique imediatamente o gerente do projeto."],
      [id |-> "RISK-005", name |-> Name_RISK_005, action |-> "recommend",
       message |-> "RECOMENDAÇÃO: Implemente monitoramento semanal para todos os riscos com valor de exposição >= 12."]>>

\* the condition lambdas of _load_schedule_rules
Cond_SCH_001(d) ==
    AndThen(IsNotNone(Get(d, "spi")), LessThan(Get(d, "spi"), Dec(0, 800)))
Cond_SCH_002(d) ==
    AndThen(IsNotNone(Get(d, "spi")), LessThan(Get(d, "spi"), Dec(0, 900)))
\* Variation of Cond_SCH_003: a delay of exactly 10% fires
Cond_SCH_003_inclusive(d) ==
    AndThen(IsNotNone(Get(d, "atraso_dias")),
    AndThen(IsNotNone(Get(d, "duracao_planejada")),
            IF IsNumeric(Get(d, "atraso_dias")) /\ IsNumeric(Get(d, "duracao_planejada"))
            THEN Outcome(10 * AsNumber(Get(d, "atraso_dias")) >=
                             AsNumber(Get(d, "duracao_planejada")))
            ELSE "raise"))
Cond_SCH_003(d) ==
    AndThen(IsNotNone(Get(d, "atraso_dias")),
    AndThen(IsNotNone(Get(d, "duracao_planejada")),
            GreaterThanTenth(Get(d, "atraso_dias"), Get(d, "duracao_planejada"))))
\* Variation of Cond_SCH_004: "is not False", which a record without the
\* key satisfies
Cond_SCH_004_not_false(d) == Outcome(Get(d, "replanejamento") # BoolV(FALSE))
Cond_SCH_004(d) == Outcome(Get(d, "replanejamento") = BoolV(TRUE))
Cond_SCH_005(d) ==
    AndThen(IsNotNone(Get(d, "spi")),
    AndThen(LessThan(Get(d, "spi"), Dec(0, 900)),
    AndThen(IsNotNone(Get(d, "tarefas_criticas")),
            LenPositive(Get(d, "tarefas_criticas")))))

\* the condition lambdas of _load_cost_rules
Cond_COST_001(d) ==
    AndThen(IsNotNone(Get(d, "cpi")), LessThan(Get(d, "cpi"), Dec(0, 800)))
Cond_COST_002(d) ==
    AndThen(IsNotNone(Get(d, "cpi")), LessThan(Get(d, "cpi"), Dec(0, 900)))
Cond_COST_003(d) ==
    AndThen(IsNotNone(Get(d, "desvio_orcamento")),
            GreaterThan(Get(d, "desvio_orcamento"), Dec(10, 0)))
\* Variation of Cond_COST_004: a reallocation of exactly 5 fires
Cond_COST_004_inclusive(d) ==
    AndThen(IsNotNone(Get(d, "realocacao_orcamento")),
            IF IsNumeric(Get(d, "realocacao_orcamento"))
            THEN Outcome(AsNumber(Get(d, "realocacao_orcamento")) >= Dec(5, 0))
            ELSE "raise")
Cond_COST_004(d) ==
    AndThen(IsNotNone(Get(d, "realocacao_orcamento")),
            GreaterThan(Get(d, "realocacao_orcamento"), Dec(5, 0)))
Cond_COST_005(d) ==
    AndThen(IsNotNone(Get(d, "cpi")), LessThan(Get(d, "cpi"), Dec(0, 900)))

\* the condition lambdas of _load_scope_rules
Cond_SCOPE_001(d) == Outcome(Get(d, "mudanca_escopo") = StrV("Sim"))
\* Variation of Cond_SCOPE_002: the schedule impact counts only on a record
\* that declares a scope change
Cond_SCOPE_002_on_change(d) ==
    AndThen(Outcome(Get(d, "mudanca_escopo") = StrV("Sim")),
            AndThen(IsNotNone(Get(d, "impacto_cronograma")),
                    GreaterThan(Get(d, "impacto_cronograma"), Dec(10, 0))))
Cond_SCOPE_002(d) ==
    AndThen(IsNotNone(Get(d, "impacto_cronograma")),
            GreaterThan(Get(d, "impacto_cronograma"), Dec(10, 0)))
Cond_SCOPE_003(d) ==
    AndThen(IsNotNone(Get(d, "impacto_custo_percentual")),
            GreaterThan(Get(d, "impacto_custo_percentual"), Dec(5, 0)))
Cond_SCOPE_004(d) ==
    AndThen(IsNotNone(Get(d, "num_mudancas_escopo")),
            GreaterThan(Get(d, "num_mudancas_escopo"), Dec(3, 0)))
Cond_SCOPE_005(d) == Outcome(Get(d, "mudanca_escopo") = StrV("Sim"))

\* the condition lambdas of _load_risk_rules
Cond_RISK_001(d) ==
    AndThen(IsNotNone(Get(d, "riscos_altos")), LenPositive(Get(d, "riscos_altos")))
Cond_RISK_002(d) ==
    AndThen(IsNotNone(Get(d, "riscos_criticos")), LenPositive(Get(d, "riscos_criticos")))
\* Variation of Cond_RISK_003: the review is recommended only for a record
\* that lists high risks
Cond_RISK_003_when_risks(d) ==
    AndThen(IsNotNone(Get(d, "riscos_altos")), LenPositive(Get(d, "riscos_altos")))
Cond_RISK_003(d) == "true"
Cond_RISK_004(d) ==
    AndThen(IsNotNone(Get(d, "novos_riscos_altos")),
            LenPositive(Get(d, "novos_riscos_altos")))
Cond_RISK_005(d) ==
    AndThen(IsNotNone(Get(d, "riscos_alta_exposicao")),
            LenPositive(Get(d, "riscos_alta_exposicao")))

\* rule["condition"](data)
Condition(rule, d) ==
    CASE rule.id = "SCH-001" -> Cond_SCH_001(d)
      [] rule.id = "SCH-002" -> Cond_SCH_002(d)
      [] rule.id = "SCH-003" -> Cond_SCH_003(d)
      [] rule.id = "SCH-004" -> Cond_SCH_004(d)
      [] rule.id = "SCH-005" -> Cond_SCH_005(d)
      [] rule.id = "COST-001" -> Cond_COST_001(d)
      [] rule.id = "COST-002" -> Cond_COST_002(d)
      [] rule.id = "COST-003" -> Cond_COST_003(d)
      [] rule.id = "COST-004" -> Cond_COST_004(d)
      [] rule.id = "COST-005" -> Cond_COST_005(d)
      [] rule.id = "SCOPE-001" -> Cond_SCOPE_001(d)
      [] rule.id = "SCOPE-002" -> Cond_SCOPE_002(d)
      [] rule.id = "SCOPE-003" -> Cond_SCOPE_003(d)
      [] rule.id = "SCOPE-004" -> Cond_SCOPE_004(d)
      [] rule.id = "SCOPE-005" -> Cond_SCOPE_005(d)
      [] rule.id = "RISK-001" -> Cond_RISK_001(d)
      [] rule.id = "RISK-002" -> Cond_RISK_002(d)
      [] rule.id = "RISK-003" -> Cond_RISK_003(d)
      [] rule.id = "RISK-004" -> Cond_RISK_004(d)
      [] rule.id = "RISK-005" -> Cond_RISK_005(d)

\* PMBOKGuardRails.__init__: self.rules
LoadRules ==
    [dom \in {"cronograma", "custos", "escopo", "riscos"} |->
        CASE dom = "cronograma" -> _load_schedule_rules
          [] dom = "custos" -> _load_cost_rules
          [] dom = "escopo" -> _load_scope_rules
          [] dom = "riscos" -> _load_risk_rules]

----------------------------------------------------------------------------
(* validate *)

\* Variation of _check_requirement_met: the entry need only be present
check_requirement_met_present(rule, d) ==
    ("requirement_" \o rule.id \o "_met") \in DOMAIN d

\* _check_requirement_met: the truth value of
\* data.get("requirement_<rule id>_met", False), as `not` reads it
_check_requirement_met(rule, d) ==
    Truthy(GetDefault(d, "requirement_" \o rule.id \o "_met", BoolV(FALSE)))

\* the message dict appended when a rule's condition holds
FiredMessage(rule) ==
    [rule_id |-> rule.id, rule_name |-> rule.name,
     message |-> rule.message, action |-> rule.action]

\* the message dict appended by the except branch (the exception's own
\* text, which follows the prefix, is not modelled)
ErrorMessage(rule) ==
    [rule_id |-> rule.id, rule_name |-> rule.name,
     message |-> "Erro ao aplicar regra: TypeError", action |-> "error"]

\* the plain string (not a dict) that validate puts in messages for an
\* unknown domain
InvalidDomainMessage(dom) == [str |-> "Domínio inválido: " \o dom]

\* whether an element of messages is a dict (subscriptable by a key)
IsDict(m) == "action" \in DOMAIN m

\* Variation of ApplyRules: the try encloses the loop, so the first
\* condition that raises ends the evaluation
RECURSIVE ApplyRules_abort(_, _, _, _, _)
ApplyRules_abort(catalog, d, i, messages, valid) ==
    IF i > Len(catalog) THEN [valid |-> valid, messages |-> messages]
    ELSE LET rule == catalog[i]
             c == Condition(rule, d)
         IN  IF c = "raise"
             THEN [valid |-> valid, messages |-> Append(messages, ErrorMessage(rule))]
             ELSE IF c = "true"
             THEN ApplyRules_abort(catalog, d, i + 1, Append(messages, FiredMessage(rule)),
                             IF rule.action = "require" /\ ~_check_requirement_met(rule, d)
                             THEN FALSE ELSE valid)
             ELSE ApplyRules_abort(catalog, d, i + 1, messages, valid)

\* Variation of ApplyRules: each message is put at the head of the list
RECURSIVE ApplyRules_prepend(_, _, _, _, _)
ApplyRules_prepend(catalog, d, i, messages, valid) ==
    IF i > Len(catalog) THEN [valid |-> valid, messages |-> messages]
    ELSE LET rule == catalog[i]
             c == Condition(rule, d)
         IN  IF c = "raise"
             THEN ApplyRules_prepend(catalog, d, i + 1,
                                     <<ErrorMessage(rule)>> \o messages, valid)
             ELSE IF c = "true"
             THEN ApplyRules_prepend(catalog, d, i + 1,
                             <<FiredMessage(rule)>> \o messages,
                             IF rule.action = "require" /\ ~_check_requirement_met(rule, d)
                             THEN FALSE ELSE valid)
             ELSE ApplyRules_prepend(catalog, d, i + 1, messages, valid)

\* Variation of ApplyRules: the except branch also clears valid
RECURSIVE ApplyRules_error_invalidates(_, _, _, _, _)
ApplyRules_error_invalidates(catalog, d, i, messages, valid) ==
    IF i > Len(catalog) THEN [valid |-> valid, messages |-> messages]
    ELSE LET rule == catalog[i]
             c == Condition(rule, d)
         IN  IF c = "raise"
             THEN ApplyRules_error_invalidates(catalog, d, i + 1,
                                     Append(messages, ErrorMessage(rule)), FALSE)
             ELSE IF c = "true"
             THEN ApplyRules_error_invalidates(catalog, d, i + 1,
                             Append(messages, FiredMessage(rule)),
                             IF rule.action = "require" /\ ~_check_requirement_met(rule, d)
                             THEN FALSE ELSE valid)
             ELSE ApplyRules_error_invalidates(catalog, d, i + 1, messages, valid)

\* the loop of validate over the catalog, from rule i on.  The try also
\* encloses the append and the requirement check, which cannot raise on
\* the values modelled here (`not` is defined on each of them), so a rule
\* adds either its fired message or its error message.
RECURSIVE ApplyRules(_, _, _, _, _)
ApplyRules(catalog, d, i, messages, valid) ==
    IF i > Len(catalog) THEN [valid |-> valid, messages |-> messages]
    ELSE LET rule == catalog[i]
             c == Condition(rule, d)
         IN  IF c = "raise"
             THEN ApplyRules(catalog, d, i + 1, Append(messages, ErrorMessage(rule)), valid)
             ELSE IF c = "true"
             THEN ApplyRules(catalog, d, i + 1, Append(messages, FiredMessage(rule)),
                             IF rule.action = "require" /\ ~_check_requirement_met(rule, d)
                             THEN FALSE ELSE valid)
             ELSE ApplyRules(catalog, d, i + 1, messages, valid)

\* Variation of validate: an unknown domain is read as an empty catalog
validate_unknown_as_empty(self_rules, dom, d) ==
    IF dom \notin DOMAIN self_rules
    THEN [valid |-> TRUE, messages |-> <<>>]
    ELSE ApplyRules(self_rules[dom], d, 1, <<>>, TRUE)

\* PMBOKGuardRails.validate(domain, data) on an engine whose self.rules is self_rules
validate(self_rules, dom, d) ==
    IF dom \notin DOMAIN self_rules
    THEN [valid |-> FALSE, messages |-> <<InvalidDomainMessage(dom)>>]
    ELSE ApplyRules(self_rules[dom], d, 1, <<>>, TRUE)

----------------------------------------------------------------------------
(* Topic coverage *)

\* str.lower() on one character
LowerChar(c) ==
    CASE c = "A" -> "a" [] c = "B" -> "b" [] c = "C" -> "c" [] c = "D" -> "d"
      [] c = "E" -> "e" [] c = "F" -> "f" [] c = "G" -> "g" [] c = "H" -> "h"
      [] c = "I" -> "i" [] c = "J" -> "j" [] c = "K" -> "k" [] c = "L" -> "l"
      [] c = "M" -> "m" [] c = "N" -> "n" [] c = "O" -> "o" [] c = "P" -> "p"
      [] c = "Q" -> "q" [] c = "R" -> "r" [] c = "S" -> "s" [] c = "T" -> "t"
      [] c = "U" -> "u" [] c = "V" -> "v" [] c = "W" -> "w" [] c = "X" -> "x"
      [] c = "Y" -> "y" [] c = "Z" -> "z"
      [] c = "Á" -> "á" [] c = "Ã" -> "ã" [] c = "Ç" -> "ç" [] c = "É" -> "é"
      [] c = "Ê" -> "ê" [] c = "Í" -> "í" [] c = "Ó" -> "ó" [] c = "Õ" -> "õ"
      [] c = "Ú" -> "ú"
      [] OTHER -> c

\* str.lower()
Lower(text) == [i \in 1..Len(text) |-> LowerChar(text[i])]

\* the characters str.split() splits on
IsSpace(c) == c \in {" ", "\t", "\n"}

\* str.split(): the maximal runs of non-space characters, from position i
\* on, word being the run collected so far
RECURSIVE SplitFrom(_, _, _)
SplitFrom(text, i, word) ==
    IF i > Len(text) THEN (IF word = <<>> THEN <<>> ELSE <<word>>)
    ELSE IF IsSpace(text[i])
         THEN (IF word = <<>> THEN <<>> ELSE <<word>>) \o SplitFrom(text, i + 1, <<>>)
         ELSE SplitFrom(text, i + 1, Append(word, text[i]))
Split(text) == SplitFrom(text, 1, <<>>)

\* needle in hay, for strings
Contains(hay, needle) ==
    \E i \in 1..(Len(hay) - Len(needle) + 1) :
        SubSeq(hay, i, i + Len(needle) - 1) = needle

\* the words _extract_keywords never keeps
StopWords ==
    {<<"p","a","r","a">>, <<"c","o","m">>, <<"q","u","e">>, <<"d","e","v","e">>,
     <<"q","u","a","n","d","o">>, <<"r","e","q","u","e","r">>}

\* _extract_keywords(topic)
_extract_keywords(t) ==
    SelectSeq(Split(Lower(t)), LAMBDA word : Len(word) > 4 /\ word \notin StopWords)

\* Variation of _topic_covered_in_recommendations: the recommendation is
\* searched as written, not lower-cased
topic_covered_case_sensitive(t, recs) ==
    LET keywords == _extract_keywords(t)
    IN  \E r \in 1..Len(recs) :
            \E k \in 1..Len(keywords) : Contains(recs[r], keywords[k])

\* _topic_covered_in_recommendations(topic, recommendations)
_topic_covered_in_recommendations(t, recs) ==
    LET keywords == _extract_keywords(t)
    IN  \E r \in 1..Len(recs) :
            \E k \in 1..Len(keywords) : Contains(Lower(recs[r]), keywords[k])

----------------------------------------------------------------------------
(* validate_recommendations *)

\* Variation of RequiredTopics: the action of the message is not tested
RequiredTopics_any_action(messages) ==
    [i \in 1..Len(messages) |-> messages[i].rule_name]

\* the first loop of validate_recommendations: the rule names of the
\* messages whose action is "require"
RequiredTopics(messages) ==
    LET required == SelectSeq(messages, LAMBDA m : m.action = "require")
    IN  [i \in 1..Len(required) |-> required[i].rule_name]

\* the second loop: the required topics no recommendation covers
MissingTopics(required_topics, recs) ==
    SelectSeq(required_topics, LAMBDA t : ~_topic_covered_in_recommendations(t, recs))

\* Variation of AdditionalRecommendations: every "require" message is
\* added, covered or not
AdditionalRecommendations_all_required(messages, missing_topics) ==
    LET additional ==
            SelectSeq(messages, LAMBDA m : m.action \in {"recommend", "require"})
    IN  [i \in 1..Len(additional) |-> additional[i].message]

\* the third loop: the texts of the "recommend" messages and of the
\* "require" messages whose rule name is in missing_topics
AdditionalRecommendations(messages, missing_topics) ==
    LET InMissing(name) == \E j \in 1..Len(missing_topics) : missing_topics[j] = name
        additional ==
            SelectSeq(messages,
                      LAMBDA m : \/ m.action = "recommend"
                                 \/ (m.action = "require" /\ InMissing(m.rule_name)))
    IN  [i \in 1..Len(additional) |-> additional[i].message]

\* Variation of validate_recommendations: valid also asks for the valid
\* flag of validate
validate_recommendations_coupled(self_rules, dom, recs, d) ==
    LET results == validate(self_rules, dom, d)
        messages == results.messages
    IN  IF \E i \in 1..Len(messages) : ~IsDict(messages[i])
        THEN [outcome |-> "raise", exception |-> "TypeError"]
        ELSE
        LET missing_topics == MissingTopics(RequiredTopics(messages), recs)
        IN  [outcome |-> "return",
             valid |-> Len(missing_topics) = 0 /\ results.valid,
             missing_topics |-> missing_topics,
             additional_recommendations |->
                 AdditionalRecommendations(messages, missing_topics),
             validation_messages |-> messages]

\* PMBOKGuardRails.validate_recommendations(domain, recommendations, data).
\* The outcome is "return" with the returned dict, or "raise": the first
\* loop subscripts every message with ["action"], which raises TypeError
\* on a message that is a plain string.
validate_recommendations(self_rules, dom, recs, d) ==
    LET results == validate(self_rules, dom, d)
        messages == results.messages
    IN  IF \E i \in 1..Len(messages) : ~IsDict(messages[i])
        THEN [outcome |-> "raise", exception |-> "TypeError"]
        ELSE
        LET missing_topics == MissingTopics(RequiredTopics(messages), recs)
        IN  [outcome |-> "return",
             valid |-> Len(missing_topics) = 0,
             missing_topics |-> missing_topics,
             additional_recommendations |->
                 AdditionalRecommendations(messages, missing_topics),
             validation_messages |-> messages]

----------------------------------------------------------------------------
(* Inputs of the evaluations *)

\* greatest length of a recommendation list
MaxRecs == 2

\* "Implementar horas extras para recuperar o atraso" (test_system.py:404; it covers no rule name)
Rec_horas_extras ==
    <<"I","m","p","l","e","m","e","n","t","a","r"," ","h","o","r","a","s"," ","e","x","t","r",
      "a","s"," ","p","a","r","a"," ","r","e","c","u","p","e","r","a","r"," ","o"," ","a","t",
      "r","a","s","o">>

\* "Documentar formalmente a mudança de escopo" (test_system.py:412)
Rec_documentar ==
    <<"D","o","c","u","m","e","n","t","a","r"," ","f","o","r","m","a","l","m","e","n","t","e",
      " ","a"," ","m","u","d","a","n","ç","a"," ","d","e"," ","e","s","c","o","p","o">>

\* "Implementar planos de mitigação para os riscos de alto nível" (test_system.py:417)
Rec_mitigacao ==
    <<"I","m","p","l","e","m","e","n","t","a","r"," ","p","l","a","n","o","s"," ","d","e"," ",
      "m","i","t","i","g","a","ç","ã","o"," ","p","a","r","a"," ","o","s"," ","r","i","s","c",
      "o","s"," ","d","e"," ","a","l","t","o"," ","n","í","v","e","l">>

\* "ELABORAR PLANO DE RECUPERAÇÃO" (a keyword in upper case)
Rec_maiusculas ==
    <<"E","L","A","B","O","R","A","R"," ","P","L","A","N","O"," ","D","E"," ","R","E","C","U",
      "P","E","R","A","Ç","Ã","O">>

\* "Pedir reaprovação" (a keyword inside a longer word)
Rec_reaprovacao ==
    <<"P","e","d","i","r"," ","r","e","a","p","r","o","v","a","ç","ã","o">>

\* "para SPI e CPI de base" (only words of rule names that are no keywords)
Rec_curtas ==
    <<"p","a","r","a"," ","S","P","I"," ","e"," ","C","P","I"," ","d","e"," ","b","a","s","e">>

\* "Requer  plano\tquando SPI cair" (two stop words, a double space and a tab)
Topic_requer ==
    <<"R","e","q","u","e","r"," "," ","p","l","a","n","o","\t","q","u","a","n","d","o"," ","S",
      "P","I"," ","c","a","i","r">>

\* "Pare com isso que deve" (no word longer than 4 characters)
Topic_sem_chaves ==
    <<"P","a","r","e"," ","c","o","m"," ","i","s","s","o"," ","q","u","e"," ","d","e","v","e">>

\* "Enviar notificação sobre o CPI crítico" (the recommendation of the coverage example)
Rec_notificacao ==
    <<"E","n","v","i","a","r"," ","n","o","t","i","f","i","c","a","ç","ã","o"," ","s","o","b",
      "r","e"," ","o"," ","C","P","I"," ","c","r","í","t","i","c","o">>

\* "Avisar quando requer" (stop words only)
Rec_quando ==
    <<"A","v","i","s","a","r"," ","q","u","a","n","d","o"," ","r","e","q","u","e","r">>

\* "" (the empty recommendation)
Rec_vazia ==
    <<>>

\* the recommendations the lists are drawn from
RecVocabulary ==
    {Rec_horas_extras, Rec_documentar, Rec_mitigacao, Rec_maiusculas,
     Rec_reaprovacao, Rec_curtas}

\* every list of at most n recommendations
RecLists(n) == UNION {[1..k -> RecVocabulary] : k \in 0..n}

\* marks a key that a record does not hold (no Python value)
Absent == [t |-> "absent", n |-> 0, s |-> ""]

\* the dict of the entries <<key, value>> whose value is not Absent
MakeRecord(entries) ==
    LET present == {i \in 1..Len(entries) : entries[i][2] # Absent}
    IN  [k \in {entries[i][1] : i \in present} |->
            entries[CHOOSE i \in present : entries[i][1] = k][2]]

\* requirement_<id>_met entries: absent, true, false, and a truthy and a
\* falsy value that are no bool
FlagMet == {Absent, BoolV(TRUE)}
FlagAny == {Absent, BoolV(TRUE), BoolV(FALSE)}
FlagOdd == {Absent, StrV("sim"), NumV(0)}

IndexValues ==
    {Absent, NumV(Dec(0, 750)), NumV(Dec(0, 800)), NumV(Dec(0, 850)),
     NumV(Dec(0, 900)), StrV("0,75")}

ScheduleRecords ==
    {MakeRecord(<<
        <<"spi", spi>>, <<"atraso_dias", atraso>>, <<"duracao_planejada", duracao>>,
        <<"replanejamento", replan>>, <<"tarefas_criticas", tarefas>>,
        <<"requirement_SCH-002_met", f2>>, <<"requirement_SCH-003_met", f3>>,
        <<"requirement_SCH-004_met", f4>> >>) :
        spi \in IndexValues,
        atraso \in {Absent, NumV(Dec(10, 0)), NumV(Dec(15, 0)), StrV("15 dias")},
        duracao \in {Absent, NumV(Dec(100, 0)), NumV(Dec(150, 0))},
        replan \in {Absent, BoolV(TRUE), StrV("Sim")},
        tarefas \in {Absent, ListV(0), ListV(2), NumV(Dec(2, 0))},
        f2 \in FlagAny, f3 \in FlagOdd, f4 \in FlagMet}

CostRecords ==
    {MakeRecord(<<
        <<"cpi", cpi>>, <<"desvio_orcamento", desvio>>,
        <<"realocacao_orcamento", realoc>>,
        <<"requirement_COST-002_met", f2>>, <<"requirement_COST-003_met", f3>>,
        <<"requirement_COST-004_met", f4>> >>) :
        cpi \in IndexValues,
        desvio \in {Absent, NumV(Dec(10, 0)), NumV(Dec(12, 500)), StrV("12,5%")},
        realoc \in {Absent, NumV(Dec(5, 0)), NumV(Dec(6, 0)), ListV(1)},
        f2 \in FlagAny, f3 \in FlagOdd, f4 \in FlagMet}

ScopeRecords ==
    {MakeRecord(<<
        <<"mudanca_escopo", mudanca>>, <<"impacto_cronograma", cron>>,
        <<"impacto_custo_percentual", custo>>, <<"num_mudancas_escopo", num>>,
        <<"requirement_SCOPE-001_met", f1>>, <<"requirement_SCOPE-002_met", f2>>,
        <<"requirement_SCOPE-003_met", f3>>, <<"requirement_SCOPE-004_met", f4>>,
        <<"requirement_SCOPE-005_met", f5>> >>) :
        mudanca \in {Absent, StrV("Sim"), StrV("Não")},
        cron \in {Absent, NumV(Dec(10, 0)), NumV(Dec(15, 0))},
        custo \in {Absent, NumV(Dec(5, 0)), NumV(Dec(10, 0))},
        num \in {Absent, NumV(Dec(3, 0)), NumV(Dec(4, 0)), StrV("4")},
        f1 \in FlagMet, f2 \in FlagMet, f3 \in FlagMet, f4 \in FlagMet, f5 \in FlagAny}

RiskRecords ==
    {MakeRecord(<<
        <<"riscos_altos", altos>>, <<"riscos_criticos", criticos>>,
        <<"novos_riscos_altos", novos>>, <<"riscos_alta_exposicao", exposicao>>,
        <<"requirement_RISK-001_met", f1>>, <<"requirement_RISK-002_met", f2>> >>) :
        altos \in {Absent, ListV(0), ListV(3), NumV(Dec(3, 0))},
        criticos \in {Absent, ListV(0), ListV(2)},
        novos \in {Absent, ListV(0), ListV(1), NumV(Dec(1, 0))},
        exposicao \in {Absent, ListV(0), ListV(3)},
        f1 \in FlagAny, f2 \in FlagOdd}

\* the records drawn for a domain; an unknown domain is given cost records
RecordsOf(dom) ==
    CASE dom = "cronograma" -> ScheduleRecords
      [] dom = "custos" -> CostRecords
      [] dom = "escopo" -> ScopeRecords
      [] dom = "riscos" -> RiskRecords
      [] OTHER -> CostRecords

\* the test data of test_guard_rails (test_system.py:372-397), with the
\* requirement flags unset
TestRecordOf(dom) ==
    CASE dom = "cronograma" ->
            MakeRecord(<< <<"spi", NumV(Dec(0, 750))>>, <<"atraso_dias", NumV(Dec(15, 0))>>,
                          <<"duracao_planejada", NumV(Dec(100, 0))>>,
                          <<"tarefas_criticas", ListV(2)>>,
                          <<"replanejamento", BoolV(TRUE)>> >>)
      [] dom = "custos" ->
            MakeRecord(<< <<"cpi", NumV(Dec(0, 850))>>,
                          <<"desvio_orcamento", NumV(Dec(12, 500))>>,
                          <<"realocacao_orcamento", NumV(Dec(6, 0))>> >>)
      [] dom = "escopo" ->
            MakeRecord(<< <<"mudanca_escopo", StrV("Sim")>>,
                          <<"impacto_cronograma", NumV(Dec(15, 0))>>,
                          <<"impacto_custo_percentual", NumV(Dec(10, 0))>>,
                          <<"num_mudancas_escopo", NumV(Dec(4, 0))>> >>)
      [] dom = "riscos" ->
            MakeRecord(<< <<"riscos_altos", ListV(3)>>, <<"riscos_criticos", ListV(2)>>,
                          <<"novos_riscos_altos", ListV(1)>>,
                          <<"riscos_alta_exposicao", ListV(3)>> >>)
      [] OTHER -> MakeRecord(<< <<"cpi", NumV(Dec(0, 850))>> >>)

\* the domain strings evaluated: the four catalogs and an unknown domain
DomainInputs == {"cronograma", "custos", "escopo", "riscos", "qualidade"}

----------------------------------------------------------------------------
(* The caller: one evaluation of a record, validate first and then        *)
(* validate_recommendations, as test_guard_rails does                      *)
(* (test_system.py:430-435).                                               *)

NotCalled == [outcome |-> "not called"]

\* no agent takes part
NoFile == [exists |-> FALSE, content |-> <<>>]
NoAgent ==
    /\ file = NoFile
    /\ index = NoneV
    /\ analysis = NotCalled
    /\ report = NotCalled

\* Either any record of the domain with no recommendation or one, or the
\* domain's test record with any recommendation list.
Init ==
    /\ rules = LoadRules
    /\ domain \in DomainInputs
    /\ \/ /\ data \in RecordsOf(domain)
          /\ recommendations \in {<<>>, <<Rec_maiusculas>>}
       \/ /\ data = TestRecordOf(domain)
          /\ recommendations \in RecLists(MaxRecs)
    /\ pc = "ready"
    /\ validation_results = NotCalled
    /\ recommendation_validation = NotCalled
    /\ topic = <<>>
    /\ covered = FALSE
    /\ workers = <<>>
    /\ NoAgent

Validate ==
    /\ pc = "ready"
    /\ validation_results' = validate(rules, domain, data)
    /\ pc' = "validated"
    /\ UNCHANGED <<rules, domain, data, recommendations, recommendation_validation,
                   topic, covered, workers>>
    /\ UNCHANGED agentVars

ValidateRecommendations ==
    /\ pc = "validated"
    /\ recommendation_validation' =
           validate_recommendations(rules, domain, recommendations, data)
    /\ pc' = "done"
    /\ UNCHANGED <<rules, domain, data, recommendations, validation_results,
                   topic, covered, workers>>
    /\ UNCHANGED agentVars

Next == Validate \/ ValidateRecommendations

Spec == Init /\ [][Next]_vars

----------------------------------------------------------------------------
(* The coverage check alone: _topic_covered_in_recommendations applied to *)
(* one topic and one recommendation list.                                  *)

\* the topics checked: the twenty rule names and two further names
Topics ==
    {Name_SCH_001, Name_SCH_002, Name_SCH_003, Name_SCH_004, Name_SCH_005,
     Name_COST_001, Name_COST_002, Name_COST_003, Name_COST_004, Name_COST_005,
     Name_SCOPE_001, Name_SCOPE_002, Name_SCOPE_003, Name_SCOPE_004, Name_SCOPE_005,
     Name_RISK_001, Name_RISK_002, Name_RISK_003, Name_RISK_004, Name_RISK_005,
     Topic_requer, Topic_sem_chaves}

CoverageVocabulary == RecVocabulary \cup {Rec_notificacao, Rec_quando, Rec_vazia}

CoverageRecLists(n) == UNION {[1..k -> CoverageVocabulary] : k \in 0..n}

InitCoverage ==
    /\ rules = LoadRules
    /\ domain = "custos"
    /\ data = MakeRecord(<<>>)
    /\ recommendations \in CoverageRecLists(MaxRecs)
    /\ pc = "topic"
    /\ validation_results = NotCalled
    /\ recommendation_validation = NotCalled
    /\ topic \in Topics
    /\ covered = FALSE
    /\ workers = <<>>
    /\ NoAgent

CheckTopic ==
    /\ pc = "topic"
    /\ covered' = _topic_covered_in_recommendations(topic, recommendations)
    /\ pc' = "checked"
    /\ UNCHANGED <<rules, domain, data, recommendations, validation_results,
                   recommendation_validation, topic, workers>>
    /\ UNCHANGED agentVars

NextCoverage == CheckTopic

SpecCoverage == InitCoverage /\ [][NextCoverage]_vars

----------------------------------------------------------------------------
(* The agents (schedule_agent_updated.py, cost_agent_updated.py).  A       *)
(* report text is a sequence of one-character strings.  The values of an   *)
(* extracted record are                                                    *)
(*   float        [t |-> "float", num, den]: the fraction num/den in       *)
(*                lowest terms, den > 0                                    *)
(*   int          [t |-> "int", n]                                         *)
(*   str          [t |-> "str", chars]                                     *)
(*   list of str  [t |-> "list", items]                                    *)
(*   dict         [t |-> "dict", items]: the <<key, value>> pairs in       *)
(*                insertion order                                          *)
(* The extracted record itself, a dict whose order nothing reads, is a     *)
(* function on the keys present.                                           *)
(* A float stands for the double nearest to its fraction.  The fractions   *)
(* here come from decimal texts of at most nine digits and from one        *)
(* division of two of them, and the code compares them only with two-digit *)
(* decimal literals: on such values the order of the doubles is the order  *)
(* of the fractions, since both sides round the same way and distinct      *)
(* fractions of this size are further apart than the rounding error.       *)

\* str.find(sub, from): the first position at or after `from` where sub
\* occurs in text, 0 if none
Find(text, sub, from) ==
    LET hits == {i \in from..(Len(text) - Len(sub) + 1) :
                    SubSeq(text, i, i + Len(sub) - 1) = sub}
    IN  IF hits = {} THEN 0 ELSE CHOOSE i \in hits : \A j \in hits : i <= j

\* text.split(sep), sep not empty: the pieces between the occurrences of
\* sep, taken left to right
RECURSIVE SplitOn(_, _)
SplitOn(text, sep) ==
    LET at == Find(text, sep, 1)
    IN  IF at = 0 THEN <<text>>
        ELSE <<SubSeq(text, 1, at - 1)>>
                 \o SplitOn(SubSeq(text, at + Len(sep), Len(text)), sep)

\* text.replace(old, ""): every occurrence of old removed, left to right
RECURSIVE Remove(_, _)
Remove(text, old) ==
    LET at == Find(text, old, 1)
    IN  IF at = 0 THEN text
        ELSE SubSeq(text, 1, at - 1)
                 \o Remove(SubSeq(text, at + Len(old), Len(text)), old)

\* text.strip()
RECURSIVE LStrip(_)
LStrip(text) ==
    IF text # <<>> /\ IsSpace(Head(text)) THEN LStrip(Tail(text)) ELSE text
RECURSIVE RStrip(_)
RStrip(text) ==
    IF text # <<>> /\ IsSpace(text[Len(text)])
    THEN RStrip(SubSeq(text, 1, Len(text) - 1)) ELSE text
Strip(text) == LStrip(RStrip(text))

\* text.startswith(prefix)
StartsWith(text, prefix) ==
    Len(text) >= Len(prefix) /\ SubSeq(text, 1, Len(prefix)) = prefix

\* text[2:]
From2(text) == SubSeq(text, 3, Len(text))

----------------------------------------------------------------------------
(* Numbers *)

RECURSIVE GCD(_, _)
GCD(a, b) == IF b = 0 THEN a ELSE GCD(b, a % b)

Abs(a) == IF a < 0 THEN -a ELSE a

\* the float of the fraction n/d, d # 0
Fraction(n, d) ==
    LET g == GCD(Abs(n), Abs(d))
        sgn == IF d < 0 THEN -1 ELSE 1
    IN  [t |-> "float", num |-> sgn * (n \div g), den |-> sgn * (d \div g)]

IntOf(i) == [t |-> "int", n |-> i]
StrOf(chars) == [t |-> "str", chars |-> chars]
ListOf(items) == [t |-> "list", items |-> items]
DictOf(items) == [t |-> "dict", items |-> items]

\* a two-digit decimal literal of the code, such as 1.05
Literal(units, hundredths) == Fraction(100 * units + hundredths, 100)

\* a >= b, a < b and a > b on floats and ints
NumOf(v) == IF v.t = "int" THEN v.n ELSE v.num
DenOf(v) == IF v.t = "int" THEN 1 ELSE v.den
GreaterEq(a, b) == NumOf(a) * DenOf(b) >= NumOf(b) * DenOf(a)
Less(a, b) == NumOf(a) * DenOf(b) < NumOf(b) * DenOf(a)
Greater(a, b) == NumOf(a) * DenOf(b) > NumOf(b) * DenOf(a)

\* a / b on floats, b # 0
Divide(a, b) == Fraction(NumOf(a) * DenOf(b), DenOf(a) * NumOf(b))

\* what float() and int() raise on a text that is no number
ValueError == [t |-> "ValueError"]

Digits == {"0", "1", "2", "3", "4", "5", "6", "7", "8", "9"}
DigitValue(c) ==
    CASE c = "0" -> 0 [] c = "1" -> 1 [] c = "2" -> 2 [] c = "3" -> 3 [] c = "4" -> 4
      [] c = "5" -> 5 [] c = "6" -> 6 [] c = "7" -> 7 [] c = "8" -> 8 [] c = "9" -> 9

AllDigits(text) == \A i \in 1..Len(text) : text[i] \in Digits

RECURSIVE DigitsValue(_)
DigitsValue(text) ==
    IF text = <<>> THEN 0
    ELSE 10 * DigitsValue(SubSeq(text, 1, Len(text) - 1)) + DigitValue(text[Len(text)])

RECURSIVE Pow10(_)
Pow10(k) == IF k = 0 THEN 1 ELSE 10 * Pow10(k - 1)

\* float(text) on decimal notation: surrounding whitespace, an optional
\* sign, digits with an optional point, one digit at least; any other
\* character (a comma, a letter, an inner space) raises.  The further
\* spellings float() accepts (exponents, digit-group underscores, inf,
\* nan) occur in no report text drawn below.
float(text) ==
    LET stripped == Strip(text)
        signed == stripped # <<>> /\ stripped[1] \in {"+", "-"}
        body == IF signed THEN Tail(stripped) ELSE stripped
        point == Find(body, <<".">>, 1)
        whole == IF point = 0 THEN body ELSE SubSeq(body, 1, point - 1)
        frac == IF point = 0 THEN <<>> ELSE SubSeq(body, point + 1, Len(body))
        sgn == IF signed /\ stripped[1] = "-" THEN -1 ELSE 1
    IN  IF AllDigits(whole) /\ AllDigits(frac) /\ Len(whole) + Len(frac) > 0
        THEN Fraction(sgn * DigitsValue(whole \o frac), Pow10(Len(frac)))
        ELSE ValueError

\* int(text): surrounding whitespace, an optional sign, digits
int(text) ==
    LET stripped == Strip(text)
        signed == stripped # <<>> /\ stripped[1] \in {"+", "-"}
        body == IF signed THEN Tail(stripped) ELSE stripped
        sgn == IF signed /\ stripped[1] = "-" THEN -1 ELSE 1
    IN  IF AllDigits(body) /\ body # <<>>
        THEN IntOf(sgn * DigitsValue(body))
        ELSE ValueError

\* d[key] = value
Put(d, key, value) ==
    [k \in DOMAIN d \cup {key} |-> IF k = key THEN value ELSE d[k]]

\* d[key] = parse(...) inside try/except: pass
TryPut(d, key, parsed) ==
    IF parsed = ValueError THEN d ELSE Put(d, key, parsed)

\* the empty dict
EmptyDict == [k \in {} |-> NoneV]

\* d[key] = value on a dict kept as <<key, value>> pairs in insertion order:
\* a key already present keeps its place
PutItem(items, key, value) ==
    IF \E i \in 1..Len(items) : items[i][1] = key
    THEN [i \in 1..Len(items) |-> IF items[i][1] = key THEN <<key, value>> ELSE items[i]]
    ELSE Append(items, <<key, value>>)

\* the labels, section headers and other literals of _extract_schedule_status
\* (schedule_agent_updated.py:120-177)
ScheduleLiterals ==
    [ status_atual |->
         <<"S","t","a","t","u","s"," ","a","t","u","a","l",":">>,
     percentual_conclusao |->
         <<"P","e","r","c","e","n","t","u","a","l"," ","d","e"," ","c","o","n","c","l","u","s",
           "ã","o",":">>,
     data_inicio |->
         <<"D","a","t","a"," ","d","e"," ","i","n","í","c","i","o",":">>,
     data_termino_planejada |->
         <<"D","a","t","a"," ","d","e"," ","t","é","r","m","i","n","o"," ","p","l","a","n","e",
           "j","a","d","a",":">>,
     data_termino_real |->
         <<"D","a","t","a"," ","d","e"," ","t","é","r","m","i","n","o"," ","r","e","a","l","/",
           "p","r","e","v","i","s","t","a",":">>,
     atraso_atual |->
         <<"A","t","r","a","s","o"," ","a","t","u","a","l",":">>,
     dias |->
         <<" ","d","i","a","s">>,
     motivo_atraso |->
         <<"M","o","t","i","v","o"," ","d","o"," ","a","t","r","a","s","o",":">>,
     spi |->
         <<"Í","n","d","i","c","e"," ","d","e"," ","D","e","s","e","m","p","e","n","h","o"," ",
           "d","e"," ","C","r","o","n","o","g","r","a","m","a"," ","(","S","P","I",")",":">>,
     valor_planejado |->
         <<"V","a","l","o","r"," ","P","l","a","n","e","j","a","d","o"," ","(","P","V",")",":">>,
     valor_agregado |->
         <<"V","a","l","o","r"," ","A","g","r","e","g","a","d","o"," ","(","E","V",")",":">>,
     tarefas_criticas |->
         <<"T","a","r","e","f","a","s"," ","c","r","í","t","i","c","a","s",":">>,
     tarefas_atrasadas |->
         <<"T","a","r","e","f","a","s"," ","a","t","r","a","s","a","d","a","s",":">>,
     relatorio |->
         <<"R","E","L","A","T","Ó","R","I","O">>]

\* those of _extract_cost_status (cost_agent_updated.py:120-177)
CostLiterals ==
    [ orcamento_inicial |->
         <<"O","r","ç","a","m","e","n","t","o"," ","i","n","i","c","i","a","l",":">>,
     custo_real |->
         <<"C","u","s","t","o"," ","r","e","a","l"," ","a","t","u","a","l",":">>,
     desvio_orcamento |->
         <<"D","e","s","v","i","o"," ","o","r","ç","a","m","e","n","t","á","r","i","o",":">>,
     cpi |->
         <<"Í","n","d","i","c","e"," ","d","e"," ","D","e","s","e","m","p","e","n","h","o"," ",
           "d","e"," ","C","u","s","t","o"," ","(","C","P","I",")",":">>,
     valor_agregado |->
         <<"V","a","l","o","r"," ","A","g","r","e","g","a","d","o"," ","(","E","V",")",":">>,
     estimativa_conclusao |->
         <<"E","s","t","i","m","a","t","i","v","a"," ","p","a","r","a"," ","c","o","n","c","l",
           "u","s","ã","o",":">>,
     estimativa_termino |->
         <<"E","s","t","i","m","a","t","i","v","a"," ","n","o"," ","t","é","r","m","i","n","o",
           " ","(","E","A","C",")",":">>,
     variacao_termino |->
         <<"V","a","r","i","a","ç","ã","o"," ","n","o"," ","t","é","r","m","i","n","o"," ","(",
           "V","A","C",")",":">>,
     categorias |->
         <<"D","e","t","a","l","h","a","m","e","n","t","o"," ","p","o","r"," ","c","a","t","e",
           "g","o","r","i","a",":">>,
     relatorio |->
         <<"R","E","L","A","T","Ó","R","I","O">>]

\* those of _extract_project_info (lines 91-100 of both agents)
ProjectLiterals ==
    [ projeto |->
         <<"P","r","o","j","e","t","o",":">>,
     data |->
         <<"D","a","t","a",":">>,
     gerente |->
         <<"G","e","r","e","n","t","e",":">>]

----------------------------------------------------------------------------
(* Extraction of the status record *)

\* line.split(label)[1].strip(), for a line that contains the label
After(line, label) == Strip(SplitOn(line, label)[2])

\* the body of the first loop of _extract_schedule_status: the first
\* branch whose label is in the line
ScheduleLine(schedule_status, line) ==
    IF Contains(line, ScheduleLiterals.status_atual)
    THEN Put(schedule_status, "status", StrOf(After(line, ScheduleLiterals.status_atual)))
    ELSE IF Contains(line, ScheduleLiterals.percentual_conclusao)
    THEN TryPut(schedule_status, "percentual_conclusao",
                float(Remove(After(line, ScheduleLiterals.percentual_conclusao), <<"%">>)))
    ELSE IF Contains(line, ScheduleLiterals.data_inicio)
    THEN Put(schedule_status, "data_inicio", StrOf(After(line, ScheduleLiterals.data_inicio)))
    ELSE IF Contains(line, ScheduleLiterals.data_termino_planejada)
    THEN Put(schedule_status, "data_termino_planejada",
             StrOf(After(line, ScheduleLiterals.data_termino_planejada)))
    ELSE IF Contains(line, ScheduleLiterals.data_termino_real)
    THEN Put(schedule_status, "data_termino_real",
             StrOf(After(line, ScheduleLiterals.data_termino_real)))
    ELSE IF Contains(line, ScheduleLiterals.atraso_atual)
    THEN TryPut(schedule_status, "atraso_dias",
                int(SplitOn(After(line, ScheduleLiterals.atraso_atual), ScheduleLiterals.dias)[1]))
    ELSE IF Contains(line, ScheduleLiterals.motivo_atraso)
    THEN Put(schedule_status, "motivo_atraso", StrOf(After(line, ScheduleLiterals.motivo_atraso)))
    ELSE IF Contains(line, ScheduleLiterals.spi)
    THEN TryPut(schedule_status, "spi", float(After(line, ScheduleLiterals.spi)))
    ELSE IF Contains(line, ScheduleLiterals.valor_planejado)
    THEN TryPut(schedule_status, "valor_planejado",
                float(Strip(Remove(After(line, ScheduleLiterals.valor_planejado), <<"R", "$">>))))
    ELSE IF Contains(line, ScheduleLiterals.valor_agregado)
    THEN TryPut(schedule_status, "valor_agregado",
                float(Strip(Remove(After(line, ScheduleLiterals.valor_agregado), <<"R", "$">>))))
    ELSE schedule_status

\* the first loop, from line i on
RECURSIVE ScheduleLabels(_, _, _)
ScheduleLabels(lines, i, schedule_status) ==
    IF i > Len(lines) THEN schedule_status
    ELSE ScheduleLabels(lines, i + 1, ScheduleLine(schedule_status, lines[i]))

\* line.strip()[2:].strip(), the text of a bullet line
Bullet(line) == Strip(From2(Strip(line)))

\* the second loop of _extract_schedule_status, from line i on
RECURSIVE ScheduleSections(_, _, _, _, _, _)
ScheduleSections(lines, i, in_critical_section, in_delayed_section, tarefas_criticas, tarefas_atrasadas) ==
    IF i > Len(lines)
    THEN [tarefas_criticas |-> tarefas_criticas, tarefas_atrasadas |-> tarefas_atrasadas]
    ELSE LET line == lines[i]
         IN  IF Contains(line, ScheduleLiterals.tarefas_criticas)
             THEN ScheduleSections(lines, i + 1, TRUE, FALSE,
                                   tarefas_criticas, tarefas_atrasadas)
             ELSE IF Contains(line, ScheduleLiterals.tarefas_atrasadas)
             THEN ScheduleSections(lines, i + 1, FALSE, TRUE,
                                   tarefas_criticas, tarefas_atrasadas)
             ELSE IF Strip(line) = <<>> \/ StartsWith(line, ScheduleLiterals.relatorio)
             THEN ScheduleSections(lines, i + 1, FALSE, FALSE,
                                   tarefas_criticas, tarefas_atrasadas)
             ELSE IF in_critical_section /\ StartsWith(Strip(line), <<"-">>)
             THEN ScheduleSections(lines, i + 1, in_critical_section, in_delayed_section,
                                   Append(tarefas_criticas, Bullet(line)), tarefas_atrasadas)
             ELSE IF in_delayed_section /\ StartsWith(Strip(line), <<"-">>)
             THEN ScheduleSections(lines, i + 1, in_critical_section, in_delayed_section,
                                   tarefas_criticas, Append(tarefas_atrasadas, Bullet(line)))
             ELSE ScheduleSections(lines, i + 1, in_critical_section, in_delayed_section,
                                   tarefas_criticas, tarefas_atrasadas)

\* ScheduleAgent._extract_schedule_status(content)
_extract_schedule_status(content) ==
    LET lines == SplitOn(content, <<"\n">>)
        schedule_status == ScheduleLabels(lines, 1, EmptyDict)
        sections == ScheduleSections(lines, 1, FALSE, FALSE, <<>>, <<>>)
    IN  Put(Put(schedule_status, "tarefas_criticas", ListOf(sections.tarefas_criticas)),
            "tarefas_atrasadas", ListOf(sections.tarefas_atrasadas))

\* the body of the first loop of _extract_cost_status
CostLine(cost_status, line) ==
    IF Contains(line, CostLiterals.orcamento_inicial)
    THEN TryPut(cost_status, "orcamento_inicial",
                float(Strip(Remove(After(line, CostLiterals.orcamento_inicial), <<"R", "$">>))))
    ELSE IF Contains(line, CostLiterals.custo_real)
    THEN TryPut(cost_status, "custo_real",
                float(Strip(Remove(After(line, CostLiterals.custo_real), <<"R", "$">>))))
    ELSE IF Contains(line, CostLiterals.desvio_orcamento)
    THEN TryPut(cost_status, "desvio_orcamento",
                float(Strip(Remove(After(line, CostLiterals.desvio_orcamento), <<"%">>))))
    ELSE IF Contains(line, CostLiterals.cpi)
    THEN TryPut(cost_status, "cpi", float(After(line, CostLiterals.cpi)))
    ELSE IF Contains(line, CostLiterals.valor_agregado)
    THEN TryPut(cost_status, "valor_agregado",
                float(Strip(Remove(After(line, CostLiterals.valor_agregado), <<"R", "$">>))))
    ELSE IF Contains(line, CostLiterals.estimativa_conclusao)
    THEN TryPut(cost_status, "estimativa_conclusao",
                float(Strip(Remove(After(line, CostLiterals.estimativa_conclusao), <<"R", "$">>))))
    ELSE IF Contains(line, CostLiterals.estimativa_termino)
    THEN TryPut(cost_status, "estimativa_termino",
                float(Strip(Remove(After(line, CostLiterals.estimativa_termino), <<"R", "$">>))))
    ELSE IF Contains(line, CostLiterals.variacao_termino)
    THEN TryPut(cost_status, "variacao_termino",
                float(Strip(Remove(After(line, CostLiterals.variacao_termino), <<"R", "$">>))))
    ELSE cost_status

RECURSIVE CostLabels(_, _, _)
CostLabels(lines, i, cost_status) ==
    IF i > Len(lines) THEN cost_status
    ELSE CostLabels(lines, i + 1, CostLine(cost_status, lines[i]))

\* the try block of the second loop of _extract_cost_status on a bullet
\* line of the categories section: "- <categoria>: R$ <valor> (<percentual>%)"
CategoryLine(categorias_custos, line) ==
    LET parts == SplitOn(From2(Strip(line)), <<":">>)
    IN  IF Len(parts) < 2 THEN categorias_custos
        ELSE LET categoria == Strip(parts[1])
                 valor_parts == SplitOn(Strip(parts[2]), <<"(">>)
                 valor == float(Strip(Remove(valor_parts[1], <<"R", "$">>)))
                 percentual == float(Strip(Remove(valor_parts[2], <<"%", ")">>)))
             IN  IF valor = ValueError THEN categorias_custos
                 ELSE IF Len(valor_parts) > 1
                 THEN IF percentual = ValueError THEN categorias_custos
                      ELSE PutItem(categorias_custos, categoria,
                                   [valor |-> valor, percentual |-> percentual])
                 ELSE PutItem(categorias_custos, categoria, [valor |-> valor])

\* the second loop of _extract_cost_status, from line i on
RECURSIVE CostSections(_, _, _, _)
CostSections(lines, i, in_categories_section, categorias_custos) ==
    IF i > Len(lines) THEN categorias_custos
    ELSE LET line == lines[i]
         IN  IF Contains(line, CostLiterals.categorias)
             THEN CostSections(lines, i + 1, TRUE, categorias_custos)
             ELSE IF Strip(line) = <<>> \/ StartsWith(line, CostLiterals.relatorio)
             THEN CostSections(lines, i + 1, FALSE, categorias_custos)
             ELSE IF in_categories_section /\ StartsWith(Strip(line), <<"-">>)
             THEN CostSections(lines, i + 1, in_categories_section,
                               CategoryLine(categorias_custos, line))
             ELSE CostSections(lines, i + 1, in_categories_section, categorias_custos)

\* CostAgent._extract_cost_status(content)
_extract_cost_status(content) ==
    LET lines == SplitOn(content, <<"\n">>)
        cost_status == CostLabels(lines, 1, EmptyDict)
    IN  Put(cost_status, "categorias_custos",
            DictOf(CostSections(lines, 1, FALSE, <<>>)))

----------------------------------------------------------------------------
(* Health assessment and analysis *)

\* Variation of _evaluate_schedule_health: the lower bounds are exclusive
evaluate_schedule_health_exclusive(spi) ==
    IF spi = NoneV THEN [status |-> "unknown"]
    ELSE IF Greater(spi, Literal(1, 5)) THEN [status |-> "excellent"]
    ELSE IF Greater(spi, Literal(0, 95)) THEN [status |-> "good"]
    ELSE IF Greater(spi, Literal(0, 85)) THEN [status |-> "warning"]
    ELSE IF Greater(spi, Literal(0, 70)) THEN [status |-> "critical"]
    ELSE [status |-> "severe"]

\* ScheduleAgent._evaluate_schedule_health(spi).  The description entry of
\* the returned dict, a sentence that quotes the index, is left out.
_evaluate_schedule_health(spi) ==
    IF spi = NoneV THEN [status |-> "unknown"]
    ELSE IF GreaterEq(spi, Literal(1, 5)) THEN [status |-> "excellent"]
    ELSE IF GreaterEq(spi, Literal(0, 95)) THEN [status |-> "good"]
    ELSE IF GreaterEq(spi, Literal(0, 85)) THEN [status |-> "warning"]
    ELSE IF GreaterEq(spi, Literal(0, 70)) THEN [status |-> "critical"]
    ELSE [status |-> "severe"]

\* Variation of _evaluate_cost_health: the "warning" band ends at 0.92
evaluate_cost_health_warning_092(cpi) ==
    IF cpi = NoneV THEN [status |-> "unknown"]
    ELSE IF GreaterEq(cpi, Literal(1, 10)) THEN [status |-> "excellent"]
    ELSE IF GreaterEq(cpi, Literal(1, 0)) THEN [status |-> "good"]
    ELSE IF GreaterEq(cpi, Literal(0, 92)) THEN [status |-> "warning"]
    ELSE IF GreaterEq(cpi, Literal(0, 80)) THEN [status |-> "critical"]
    ELSE [status |-> "severe"]

\* CostAgent._evaluate_cost_health(cpi), likewise
_evaluate_cost_health(cpi) ==
    IF cpi = NoneV THEN [status |-> "unknown"]
    ELSE IF GreaterEq(cpi, Literal(1, 10)) THEN [status |-> "excellent"]
    ELSE IF GreaterEq(cpi, Literal(1, 0)) THEN [status |-> "good"]
    ELSE IF GreaterEq(cpi, Literal(0, 90)) THEN [status |-> "warning"]
    ELSE IF GreaterEq(cpi, Literal(0, 80)) THEN [status |-> "critical"]
    ELSE [status |-> "severe"]

\* d.get(key, None) on an extracted record
GetOrNone(d, key) == IF key \in DOMAIN d THEN d[key] ELSE NoneV

\* Variation of DeriveSPI: a planned value that is not positive gives the
\* index 0
DeriveSPI_zero_default(schedule_status) ==
    LET spi == GetOrNone(schedule_status, "spi")
    IN  IF spi = NoneV /\ "valor_agregado" \in DOMAIN schedule_status
                       /\ "valor_planejado" \in DOMAIN schedule_status
        THEN LET ev == schedule_status["valor_agregado"]
                 pv == schedule_status["valor_planejado"]
                 derived == IF Greater(pv, IntOf(0)) THEN Divide(ev, pv) ELSE Fraction(0, 1)
             IN  [spi |-> derived, schedule_status |-> Put(schedule_status, "spi", derived)]
        ELSE [spi |-> spi, schedule_status |-> schedule_status]

\* the derivation step of analyze_schedule_file (lines 49-56): the local
\* spi and the record after it
DeriveSPI(schedule_status) ==
    LET spi == GetOrNone(schedule_status, "spi")
    IN  IF spi = NoneV /\ "valor_agregado" \in DOMAIN schedule_status
                       /\ "valor_planejado" \in DOMAIN schedule_status
        THEN LET ev == schedule_status["valor_agregado"]
                 pv == schedule_status["valor_planejado"]
             IN  IF Greater(pv, IntOf(0))
                 THEN [spi |-> Divide(ev, pv),
                       schedule_status |-> Put(schedule_status, "spi", Divide(ev, pv))]
                 ELSE [spi |-> spi, schedule_status |-> schedule_status]
        ELSE [spi |-> spi, schedule_status |-> schedule_status]

\* Variation of DeriveCPI: the index is computed whenever the earned value
\* and the actual cost allow it, extracted or not
DeriveCPI_overwrite(cost_status) ==
    LET cpi == GetOrNone(cost_status, "cpi")
    IN  IF "valor_agregado" \in DOMAIN cost_status /\ "custo_real" \in DOMAIN cost_status
        THEN LET ev == cost_status["valor_agregado"]
                 ac == cost_status["custo_real"]
             IN  IF Greater(ac, IntOf(0))
                 THEN [cpi |-> Divide(ev, ac),
                       cost_status |-> Put(cost_status, "cpi", Divide(ev, ac))]
                 ELSE [cpi |-> cpi, cost_status |-> cost_status]
        ELSE [cpi |-> cpi, cost_status |-> cost_status]

\* the derivation step of analyze_cost_file (lines 49-56)
DeriveCPI(cost_status) ==
    LET cpi == GetOrNone(cost_status, "cpi")
    IN  IF cpi = NoneV /\ "valor_agregado" \in DOMAIN cost_status
                       /\ "custo_real" \in DOMAIN cost_status
        THEN LET ev == cost_status["valor_agregado"]
                 ac == cost_status["custo_real"]
             IN  IF Greater(ac, IntOf(0))
                 THEN [cpi |-> Divide(ev, ac),
                       cost_status |-> Put(cost_status, "cpi", Divide(ev, ac))]
                 ELSE [cpi |-> cpi, cost_status |-> cost_status]
        ELSE [cpi |-> cpi, cost_status |-> cost_status]

\* lines[:10]
First10(lines) == SubSeq(lines, 1, IF Len(lines) < 10 THEN Len(lines) ELSE 10)

\* the body of the loop of _extract_project_info
ProjectLine(project_info, line) ==
    IF Contains(line, ProjectLiterals.projeto)
    THEN LET parts == SplitOn(After(line, ProjectLiterals.projeto), <<"(">>)
         IN  IF Len(parts) > 1
             THEN Put(Put(project_info, "nome", StrOf(Strip(parts[1]))),
                      "id", StrOf(Strip(Remove(parts[2], <<")">>))))
             ELSE Put(project_info, "nome", StrOf(Strip(parts[1])))
    ELSE IF Contains(line, ProjectLiterals.data)
    THEN Put(project_info, "data_relatorio", StrOf(After(line, ProjectLiterals.data)))
    ELSE IF Contains(line, ProjectLiterals.gerente)
    THEN Put(project_info, "gerente", StrOf(After(line, ProjectLiterals.gerente)))
    ELSE project_info

RECURSIVE ProjectLines(_, _, _)
ProjectLines(lines, i, project_info) ==
    IF i > Len(lines) THEN project_info
    ELSE ProjectLines(lines, i + 1, ProjectLine(project_info, lines[i]))

\* _extract_project_info(content), the same method in both agents
_extract_project_info(content) ==
    ProjectLines(First10(SplitOn(content, <<"\n">>)), 1, EmptyDict)

----------------------------------------------------------------------------
(* Recommendations.  A recommendation is [text, tail]: a text of the code *)
(* followed by characters taken from the report (none for most).           *)

\* the list the first if/elif chain of _generate_recommendations assigns
ScheduleBaseRecommendations(spi) ==
    IF spi = NoneV
    THEN <<"Estabelecer métricas de valor agregado (EV) e valor planejado (PV) para calcular o SPI",
          "Implementar um sistema de monitoramento de cronograma mais detalhado",
          "Revisar o plano de gerenciamento do cronograma">>
    ELSE IF Less(spi, Literal(0, 70))
    THEN <<"Realizar reunião de emergência com a equipe do projeto e stakeholders",
          "Revisar o caminho crítico e identificar oportunidades de fast-tracking",
          "Alocar recursos adicionais para as tarefas críticas",
          "Considerar a revisão da linha de base do cronograma",
          "Implementar monitoramento diário das tarefas críticas",
          "Avaliar a possibilidade de redução de escopo (com aprovação dos stakeholders)">>
    ELSE IF Less(spi, Literal(0, 85))
    THEN <<"Revisar o caminho crítico e identificar oportunidades de otimização",
          "Implementar horas extras para recuperar o atraso",
          "Monitorar de perto as tarefas críticas",
          "Revisar as dependências entre tarefas para otimização",
          "Comunicar o status aos stakeholders e discutir estratégias de recuperação">>
    ELSE IF Less(spi, Literal(0, 95))
    THEN <<"Monitorar de perto as tarefas críticas",
          "Identificar potenciais riscos que possam causar mais atrasos",
          "Revisar a alocação de recursos para otimização",
          "Implementar reuniões de acompanhamento mais frequentes">>
    ELSE IF Less(spi, Literal(1, 5))
    THEN <<"Manter o monitoramento regular do cronograma",
          "Continuar com as práticas atuais de gerenciamento",
          "Documentar lições aprendidas para projetos futuros">>
    ELSE <<"Verificar se a qualidade está sendo mantida apesar do avanço rápido",
          "Considerar realocação de recursos para outros projetos prioritários",
          "Documentar as práticas bem-sucedidas para projetos futuros",
          "Revisar as estimativas para projetos futuros">>

\* the list the first if/elif chain of _generate_recommendations assigns
CostBaseRecommendations(cpi) ==
    IF cpi = NoneV
    THEN <<"Estabelecer métricas de valor agregado (EV) e custo real (AC) para calcular o CPI",
          "Implementar um sistema de monitoramento de custos mais detalhado",
          "Revisar o plano de gerenciamento dos custos">>
    ELSE IF Less(cpi, Literal(0, 70))
    THEN <<"Realizar reunião de emergência com a equipe do projeto e stakeholders",
          "Revisar todas as categorias de custo para identificar áreas de maior desvio",
          "Implementar controles mais rigorosos para aprovação de despesas",
          "Considerar a revisão do orçamento base",
          "Avaliar a possibilidade de redução de escopo (com aprovação dos stakeholders)",
          "Renegociar contratos com fornecedores">>
    ELSE IF Less(cpi, Literal(0, 80))
    THEN <<"Revisar as categorias de custo com maior desvio",
          "Implementar medidas de economia sem impactar a qualidade",
          "Monitorar de perto todas as despesas futuras",
          "Revisar processos para identificar ineficiências",
          "Comunicar o status aos stakeholders e discutir estratégias de recuperação">>
    ELSE IF Less(cpi, Literal(0, 90))
    THEN <<"Monitorar de perto as categorias de custo com maior desvio",
          "Identificar potenciais riscos que possam causar mais desvios",
          "Revisar a alocação de recursos para otimização",
          "Implementar reuniões de acompanhamento de custos mais frequentes">>
    ELSE IF Less(cpi, Literal(1, 0))
    THEN <<"Manter o monitoramento regular dos custos",
          "Implementar pequenas medidas de economia",
          "Revisar estimativas para atividades futuras">>
    ELSE IF Less(cpi, Literal(1, 10))
    THEN <<"Manter o monitoramento regular dos custos",
          "Continuar com as práticas atuais de gerenciamento",
          "Documentar lições aprendidas para projetos futuros">>
    ELSE <<"Verificar se a qualidade está sendo mantida apesar dos custos reduzidos",
          "Considerar realocação de recursos para outros projetos prioritários",
          "Documentar as práticas bem-sucedidas para projetos futuros",
          "Revisar as estimativas para projetos futuros">>

\* the recommendations of a list of texts of the code
Fixed(texts) == [i \in 1..Len(texts) |-> [text |-> texts[i], tail |-> <<>>]]

\* sep.join(items)
RECURSIVE JoinWith(_, _)
JoinWith(items, sep) ==
    IF items = <<>> THEN <<>>
    ELSE IF Len(items) = 1 THEN items[1]
    ELSE items[1] \o sep \o JoinWith(Tail(items), sep)

\* what a comparison of None with a float raises
TypeError == [t |-> "TypeError"]

\* ScheduleAgent._generate_recommendations(schedule_status, project_info)
\* of an agent without llm_interface
ScheduleAgent_generate_recommendations(schedule_status) ==
    LET spi == GetOrNone(schedule_status, "spi")
        recs == Fixed(ScheduleBaseRecommendations(spi))
        tarefas_atrasadas == GetOrNone(schedule_status, "tarefas_atrasadas")
    IN  IF tarefas_atrasadas # NoneV /\ tarefas_atrasadas.items # <<>>
        THEN Append(recs,
                    [text |-> "Focar nas tarefas atrasadas: ",
                     tail |-> JoinWith(tarefas_atrasadas.items, <<",", " ">>)])
        ELSE recs

\* the loop over categorias_custos.items(): the category of greatest
\* value, the first of them, None when no value is positive
RECURSIVE MaiorCategoria(_, _, _, _)
MaiorCategoria(items, i, maior_categoria, maior_valor) ==
    IF i > Len(items) THEN maior_categoria
    ELSE IF Greater(items[i][2].valor, maior_valor)
    THEN MaiorCategoria(items, i + 1, StrOf(items[i][1]), items[i][2].valor)
    ELSE MaiorCategoria(items, i + 1, maior_categoria, maior_valor)

\* CostAgent._generate_recommendations(cost_status, project_info) of an
\* agent without llm_interface: the list, or TypeError when
\* `maior_categoria and cpi < 0.9` compares None
CostAgent_generate_recommendations(cost_status) ==
    LET cpi == GetOrNone(cost_status, "cpi")
        recs == Fixed(CostBaseRecommendations(cpi))
        categorias_custos == GetOrNone(cost_status, "categorias_custos")
        maior_categoria ==
            IF categorias_custos = NoneV THEN NoneV
            ELSE MaiorCategoria(categorias_custos.items, 1, NoneV, IntOf(0))
    IN  IF categorias_custos # NoneV /\ categorias_custos.items # <<>>
           /\ maior_categoria # NoneV /\ maior_categoria.chars # <<>>
        THEN IF cpi = NoneV THEN TypeError
             ELSE IF Less(cpi, Literal(0, 90))
             THEN Append(recs,
                         [text |-> "Focar na redução de custos na categoria: ",
                          tail |-> maior_categoria.chars])
             ELSE recs
        ELSE recs

\* an exception leaves the method
Raise(exception) == [outcome |-> "raise", exception |-> exception]

\* the result for a path with no file
NotFound == [status |-> "error", error |-> "Arquivo não encontrado"]

\* Variation of analyze_schedule_file: the health is assessed on the index
\* as extracted
analyze_schedule_file_extracted_index(f) ==
    IF ~f.exists THEN NotFound
    ELSE LET schedule_status == _extract_schedule_status(f.content)
             derived == DeriveSPI(schedule_status)
         IN  [status |-> "success",
              project_info |-> _extract_project_info(f.content),
              schedule_status |-> derived.schedule_status,
              schedule_health |->
                  _evaluate_schedule_health(GetOrNone(schedule_status, "spi")),
              recommendations |->
                  ScheduleAgent_generate_recommendations(derived.schedule_status)]

\* ScheduleAgent.analyze_schedule_file(file_path), f being the file at the
\* path, by an agent without llm_interface.  The analysis_date entry of
\* the result, the wall clock, is left out.
analyze_schedule_file(f) ==
    IF ~f.exists THEN NotFound
    ELSE LET schedule_status == _extract_schedule_status(f.content)
             derived == DeriveSPI(schedule_status)
         IN  [status |-> "success",
              project_info |-> _extract_project_info(f.content),
              schedule_status |-> derived.schedule_status,
              schedule_health |-> _evaluate_schedule_health(derived.spi),
              recommendations |->
                  ScheduleAgent_generate_recommendations(derived.schedule_status)]

\* CostAgent.analyze_cost_file(file_path), likewise
analyze_cost_file(f) ==
    IF ~f.exists THEN NotFound
    ELSE LET cost_status == _extract_cost_status(f.content)
             derived == DeriveCPI(cost_status)
             recs == CostAgent_generate_recommendations(derived.cost_status)
         IN  IF recs = TypeError THEN Raise("TypeError")
             ELSE [status |-> "success",
                   project_info |-> _extract_project_info(f.content),
                   cost_status |-> derived.cost_status,
                   cost_health |-> _evaluate_cost_health(derived.cpi),
                   recommendations |-> recs]

\* the lines of the report texts drawn
\* "Índice de Desempenho de Cronograma (SPI): 0.92"
Line_spi ==
    <<"Í","n","d","i","c","e"," ","d","e"," ","D","e","s","e","m","p","e","n","h","o"," ","d",
      "e"," ","C","r","o","n","o","g","r","a","m","a"," ","(","S","P","I",")",":"," ","0",".",
      "9","2">>

\* "Índice de Desempenho de Cronograma (SPI): 1.05"
Line_spi_105 ==
    <<"Í","n","d","i","c","e"," ","d","e"," ","D","e","s","e","m","p","e","n","h","o"," ","d",
      "e"," ","C","r","o","n","o","g","r","a","m","a"," ","(","S","P","I",")",":"," ","1",".",
      "0","5">>

\* "Valor Planejado (PV): R$ 250000.00"
Line_pv ==
    <<"V","a","l","o","r"," ","P","l","a","n","e","j","a","d","o"," ","(","P","V",")",":"," ",
      "R","$"," ","2","5","0","0","0","0",".","0","0">>

\* "Valor Planejado (PV): R$ 0.00"
Line_pv_zero ==
    <<"V","a","l","o","r"," ","P","l","a","n","e","j","a","d","o"," ","(","P","V",")",":"," ",
      "R","$"," ","0",".","0","0">>

\* "Valor Planejado (PV): R$ -1000.00"
Line_pv_negative ==
    <<"V","a","l","o","r"," ","P","l","a","n","e","j","a","d","o"," ","(","P","V",")",":"," ",
      "R","$"," ","-","1","0","0","0",".","0","0">>

\* "Valor Planejado (PV): R$ 250.000,00"
Line_pv_formatted ==
    <<"V","a","l","o","r"," ","P","l","a","n","e","j","a","d","o"," ","(","P","V",")",":"," ",
      "R","$"," ","2","5","0",".","0","0","0",",","0","0">>

\* "Valor Agregado (EV): R$ 212500.00"
Line_ev ==
    <<"V","a","l","o","r"," ","A","g","r","e","g","a","d","o"," ","(","E","V",")",":"," ","R",
      "$"," ","2","1","2","5","0","0",".","0","0">>

\* "Valor Agregado (EV): R$ 175000.00"
Line_ev_175 ==
    <<"V","a","l","o","r"," ","A","g","r","e","g","a","d","o"," ","(","E","V",")",":"," ","R",
      "$"," ","1","7","5","0","0","0",".","0","0">>

\* "Atraso atual: 15 dias"
Line_atraso ==
    <<"A","t","r","a","s","o"," ","a","t","u","a","l",":"," ","1","5"," ","d","i","a","s">>

\* "Percentual de conclusão: 45%"
Line_percentual ==
    <<"P","e","r","c","e","n","t","u","a","l"," ","d","e"," ","c","o","n","c","l","u","s","ã",
      "o",":"," ","4","5","%">>

\* "Percentual de conclusão: 8,5%"
Line_percentual_comma ==
    <<"P","e","r","c","e","n","t","u","a","l"," ","d","e"," ","c","o","n","c","l","u","s","ã",
      "o",":"," ","8",",","5","%">>

\* "Status atual: Atrasado"
Line_status ==
    <<"S","t","a","t","u","s"," ","a","t","u","a","l",":"," ","A","t","r","a","s","a","d","o">>

\* "Tarefas críticas:"
Line_tarefas_criticas ==
    <<"T","a","r","e","f","a","s"," ","c","r","í","t","i","c","a","s",":">>

\* "- Fundação"
Line_bullet ==
    <<"-"," ","F","u","n","d","a","ç","ã","o">>

\* ""
Line_blank ==
    <<>>

\* "Índice de Desempenho de Custo (CPI): 0.95"
Line_cpi ==
    <<"Í","n","d","i","c","e"," ","d","e"," ","D","e","s","e","m","p","e","n","h","o"," ","d",
      "e"," ","C","u","s","t","o"," ","(","C","P","I",")",":"," ","0",".","9","5">>

\* "Índice de Desempenho de Custo (CPI): 1.10"
Line_cpi_110 ==
    <<"Í","n","d","i","c","e"," ","d","e"," ","D","e","s","e","m","p","e","n","h","o"," ","d",
      "e"," ","C","u","s","t","o"," ","(","C","P","I",")",":"," ","1",".","1","0">>

\* "Custo real atual: R$ 230000.00"
Line_ac ==
    <<"C","u","s","t","o"," ","r","e","a","l"," ","a","t","u","a","l",":"," ","R","$"," ","2",
      "3","0","0","0","0",".","0","0">>

\* "Custo real atual: R$ 0.00"
Line_ac_zero ==
    <<"C","u","s","t","o"," ","r","e","a","l"," ","a","t","u","a","l",":"," ","R","$"," ","0",
      ".","0","0">>

\* "Custo real atual: R$ -1000.00"
Line_ac_negative ==
    <<"C","u","s","t","o"," ","r","e","a","l"," ","a","t","u","a","l",":"," ","R","$"," ","-",
      "1","0","0","0",".","0","0">>

\* "Custo real atual: R$ 250.000,00"
Line_ac_formatted ==
    <<"C","u","s","t","o"," ","r","e","a","l"," ","a","t","u","a","l",":"," ","R","$"," ","2",
      "5","0",".","0","0","0",",","0","0">>

\* "Valor Agregado (EV): R$ 184000.00"
Line_ev_184 ==
    <<"V","a","l","o","r"," ","A","g","r","e","g","a","d","o"," ","(","E","V",")",":"," ","R",
      "$"," ","1","8","4","0","0","0",".","0","0">>

\* "Orçamento inicial: R$ 1234.56"
Line_orcamento ==
    <<"O","r","ç","a","m","e","n","t","o"," ","i","n","i","c","i","a","l",":"," ","R","$"," ",
      "1","2","3","4",".","5","6">>

\* "Orçamento inicial: R$ 1.234,56"
Line_orcamento_formatted ==
    <<"O","r","ç","a","m","e","n","t","o"," ","i","n","i","c","i","a","l",":"," ","R","$"," ",
      "1",".","2","3","4",",","5","6">>

\* "Orçamento inicial: R$ 250.000"
Line_orcamento_thousands ==
    <<"O","r","ç","a","m","e","n","t","o"," ","i","n","i","c","i","a","l",":"," ","R","$"," ",
      "2","5","0",".","0","0","0">>

\* "Desvio orçamentário: 8.5%"
Line_desvio ==
    <<"D","e","s","v","i","o"," ","o","r","ç","a","m","e","n","t","á","r","i","o",":"," ","8",
      ".","5","%">>

\* "Desvio orçamentário: 8,5%"
Line_desvio_comma ==
    <<"D","e","s","v","i","o"," ","o","r","ç","a","m","e","n","t","á","r","i","o",":"," ","8",
      ",","5","%">>

\* "Detalhamento por categoria:"
Line_categorias ==
    <<"D","e","t","a","l","h","a","m","e","n","t","o"," ","p","o","r"," ","c","a","t","e","g",
      "o","r","i","a",":">>

\* "- Pessoal: R$ 100000.00 (40%)"
Line_categoria ==
    <<"-"," ","P","e","s","s","o","a","l",":"," ","R","$"," ","1","0","0","0","0","0",".","0",
      "0"," ","(","4","0","%",")">>

----------------------------------------------------------------------------
(* The agents' callers: one analysis of a status file, and one health     *)
(* assessment of an index.                                                 *)

MaxLines == 2
MaxIndexLines == 3
MaxIndex == 130

\* the lines of schedule reports, and those among them that bear on the index
ScheduleLines ==
    {Line_spi, Line_spi_105, Line_pv, Line_pv_zero, Line_pv_negative, Line_pv_formatted,
     Line_ev, Line_ev_175, Line_atraso, Line_percentual, Line_percentual_comma,
     Line_status, Line_tarefas_criticas, Line_bullet, Line_blank}
ScheduleIndexLines ==
    {Line_spi, Line_pv, Line_pv_zero, Line_pv_negative, Line_ev, Line_ev_175}

\* the lines of cost reports
CostLines ==
    {Line_cpi, Line_cpi_110, Line_ac, Line_ac_zero, Line_ac_negative, Line_ac_formatted,
     Line_ev, Line_ev_184, Line_orcamento, Line_orcamento_formatted,
     Line_orcamento_thousands, Line_desvio, Line_desvio_comma, Line_categorias,
     Line_categoria, Line_blank}
CostIndexLines ==
    {Line_cpi, Line_ac, Line_ac_zero, Line_ac_negative, Line_ev, Line_ev_184}

\* "\n".join(lines)
RECURSIVE JoinLines(_)
JoinLines(lines) ==
    IF lines = <<>> THEN <<>>
    ELSE IF Len(lines) = 1 THEN lines[1]
    ELSE lines[1] \o <<"\n">> \o JoinLines(Tail(lines))

\* the texts of at most n lines of a vocabulary
Texts(vocabulary, n) ==
    {JoinLines(lines) : lines \in UNION {[1..k -> vocabulary] : k \in 0..n}}

\* the report texts: a few lines of any kind, or more lines that bear on
\* the index
Reports ==
    Texts(ScheduleLines, MaxLines) \cup Texts(ScheduleIndexLines, MaxIndexLines)
        \cup Texts(CostLines, MaxLines) \cup Texts(CostIndexLines, MaxIndexLines)

\* no evaluation by the guard-rail engine takes part
NoEngine ==
    /\ rules = LoadRules
    /\ domain = "cronograma"
    /\ data = MakeRecord(<<>>)
    /\ recommendations = <<>>
    /\ validation_results = NotCalled
    /\ recommendation_validation = NotCalled
    /\ topic = <<>>
    /\ covered = FALSE
    /\ workers = <<>>

\* a path with no file, or a file with a report text
InitAnalysis ==
    /\ NoEngine
    /\ file \in {NoFile} \cup {[exists |-> TRUE, content |-> text] : text \in Reports}
    /\ index = NoneV
    /\ analysis = NotCalled
    /\ report = NotCalled
    /\ pc = "ready"

AnalyzeScheduleFile ==
    /\ pc = "ready"
    /\ analysis' = analyze_schedule_file(file)
    /\ pc' = "schedule analysed"
    /\ UNCHANGED <<file, index, report>>
    /\ UNCHANGED engineVars

AnalyzeCostFile ==
    /\ pc = "ready"
    /\ analysis' = analyze_cost_file(file)
    /\ pc' = "cost analysed"
    /\ UNCHANGED <<file, index, report>>
    /\ UNCHANGED engineVars

NextAnalysis == AnalyzeScheduleFile \/ AnalyzeCostFile

SpecAnalysis == InitAnalysis /\ [][NextAnalysis]_vars

\* the index values assessed: None, every hundredth from 0 to MaxIndex, the
\* values a millionth below a band's lower bound, and a negative value
HealthInputs ==
    {NoneV} \cup {Fraction(h, 100) : h \in 0..MaxIndex}
            \cup {Fraction(10000 * h - 1, 1000000) :
                     h \in {70, 80, 85, 90, 95, 100, 105, 110}}
            \cup {Fraction(-1, 2)}

InitHealth ==
    /\ NoEngine
    /\ file = NoFile
    /\ index \in HealthInputs
    /\ analysis = NotCalled
    /\ report = NotCalled
    /\ pc = "index"

EvaluateScheduleHealth ==
    /\ pc = "index"
    /\ analysis' = _evaluate_schedule_health(index)
    /\ pc' = "schedule health"
    /\ UNCHANGED <<file, index, report>>
    /\ UNCHANGED engineVars

EvaluateCostHealth ==
    /\ pc = "index"
    /\ analysis' = _evaluate_cost_health(index)
    /\ pc' = "cost health"
    /\ UNCHANGED <<file, index, report>>
    /\ UNCHANGED engineVars

NextHealth == EvaluateScheduleHealth \/ EvaluateCostHealth

SpecHealth == InitHealth /\ [][NextHealth]_vars

----------------------------------------------------------------------------
(* The status text processor (Agentes/nlp_processor.py, class             *)
(* StatusTextProcessor).  Each regular expression of self.patterns is      *)
(* matched as re.search matches it: at the leftmost position where it      *)
(* matches, greedily.  The literal parts of an expression are sequences of *)
(* sets of lower-case characters, a set per character or bracket class;    *)
(* re.IGNORECASE compares the lower case of the text with them.  The       *)
(* keyword lists are used by the code as plain texts, brackets included.   *)
(* The entries of the result that come from the spaCy model (report_date,  *)
(* manager, entities) are left out: the model is not part of the source.   *)

\* self.patterns: the literal parts of the expressions, and the keywords
patterns ==
    [project_id |->
         <<{"p"}, {"r"}, {"o"}, {"j"}>>,
     spi |->
         <<{"s"}, {"p"}, {"i"}>>,
     cpi |->
         <<{"c"}, {"p"}, {"i"}>>,
     budget |->
         <<{"o"}, {"r"}, {"ç","c"}, {"a"}, {"m"}, {"e"}, {"n"}, {"t"}, {"o"}>>,
     actual_cost |->
         <<{"c"}, {"u"}, {"s"}, {"t"}, {"o"}>>,
     delay_days |->
         <<{"a"}, {"t"}, {"r"}, {"a"}, {"s"}, {"o"}>>,
     concluido |->
         <<{"c"}, {"o"}, {"n"}, {"c"}, {"l"}, {"u"}, {"i","í"}, {"d"}, {"o"}>>,
     completo |->
         <<{"c"}, {"o"}, {"m"}, {"p"}, {"l"}, {"e"}, {"t"}, {"o"}>>,
     de_progresso |->
         <<{"d"}, {"e"}, {" "}, {"p"}, {"r"}, {"o"}, {"g"}, {"r"}, {"e"},
           {"s"}, {"s"}, {"o"}>>,
     total |->
         <<{"t"}, {"o"}, {"t"}, {"a"}, {"l"}>>,
     atual |->
         <<{"a"}, {"t"}, {"u"}, {"a"}, {"l"}>>,
     de |->
         <<{"d"}, {"e"}>>,
     dia |->
         <<{"d"}, {"i"}, {"a"}>>,
     currency |->
         <<{"r"}, {"$"}>>,
     scope_change_keywords |->
         <<<<"m","u","d","a","n","[","c","ç","]","a"," ","d","e"," ","e","s",
             "c","o","p","o">>,
           <<"a","l","t","e","r","a","[","c","ç","]","[","a","ã","]","o"," ",
             "d","e"," ","e","s","c","o","p","o">>,
           <<"e","s","c","o","p","o"," ","a","l","t","e","r","a","d","o">>>>,
     risk_keywords |->
         <<<<"r","i","s","c","o"," ","i","d","e","n","t","i","f","i","c","a",
             "d","o">>,
           <<"n","o","v","o"," ","r","i","s","c","o">>,
           <<"a","m","e","a","[","c","ç","]","a">>,
           <<"p","r","o","b","l","e","m","a"," ","p","o","t","e","n","c","i",
             "a","l">>>>]

\* the character at position i, "" past the end
At(text, i) == IF i >= 1 /\ i <= Len(text) THEN text[i] ELSE ""

\* a literal part matched at position i, 0 standing for no match before:
\* the position after it, 0 if it does not match
Lit(text, i, word) ==
    IF i # 0 /\ \A k \in 1..Len(word) : LowerChar(At(text, i + k - 1)) \in word[k]
    THEN i + Len(word) ELSE 0

\* \s* from position i, and " *": the position after the run
RECURSIVE Spaces(_, _)
Spaces(text, i) ==
    IF i # 0 /\ IsSpace(At(text, i)) THEN Spaces(text, i + 1) ELSE i
RECURSIVE Blanks(_, _)
Blanks(text, i) ==
    IF i # 0 /\ At(text, i) = " " THEN Blanks(text, i + 1) ELSE i

\* the run of characters of a class from position i: the position after it
RECURSIVE Run(_, _, _)
Run(text, i, class) ==
    IF At(text, i) \in class THEN Run(text, i + 1, class) ELSE i

\* (?:\s*[:=-])? from position i
Separator(text, i) ==
    IF At(text, Spaces(text, i)) \in {":", "=", "-"} THEN Spaces(text, i) + 1 ELSE i

\* (?:\s*word)? from position i
Optional(text, i, word) ==
    IF Lit(text, Spaces(text, i), word) # 0 THEN Lit(text, Spaces(text, i), word) ELSE i

\* no match, and the group captured from position `from` up to `to`
NoMatch == [matched |-> FALSE]
Group(text, from, to) ==
    IF from = 0 \/ to <= from THEN NoMatch
    ELSE [matched |-> TRUE, group |-> SubSeq(text, from, to - 1)]

\* (\d+(?:[.,]\d{1,2})?) from position i: the position after it, i if
\* there is no digit
Decimal(text, i) ==
    LET e == Run(text, i, Digits)
    IN  IF e = i THEN i
        ELSE IF At(text, e) \in {".", ","} /\ At(text, e + 1) \in Digits
        THEN (IF At(text, e + 2) \in Digits THEN e + 3 ELSE e + 2)
        ELSE e

\* "PROJ[ -]?(\d+)" matched at position i
Match_project_id(text, i) ==
    LET w == Lit(text, i, patterns.project_id)
        from == IF At(text, w) \in {" ", "-"} THEN w + 1 ELSE w
    IN  IF w = 0 THEN NoMatch ELSE Group(text, from, Run(text, from, Digits))

\* "(\d{1,3}(?:[.,]\d{1,2})?)\s*%\s*(?:conclu[ií]do|completo|de progresso)"
\* matched at position i.  What follows the group starts with a space or
\* "%", so the group ends where its digits end: it matches only one to
\* three digits, followed by either nothing of the number or a separator
\* and one or two digits.
Match_completion_percentage(text, i) ==
    LET e1 == Run(text, i, Digits)
        e2 == Run(text, e1 + 1, Digits)
        to == IF e1 - i \notin 1..3 THEN 0
              ELSE IF At(text, e1) \in {".", ","}
              THEN (IF e2 - (e1 + 1) \in 1..2 THEN e2 ELSE 0)
              ELSE e1
        percent == Lit(text, Spaces(text, to), <<{"%"}>>)
        word == Spaces(text, percent)
    IN  IF \/ Lit(text, word, patterns.concluido) # 0
           \/ Lit(text, word, patterns.completo) # 0
           \/ Lit(text, word, patterns.de_progresso) # 0
        THEN Group(text, i, to) ELSE NoMatch

\* "SPI(?:\s*[:=-])?\s*(\d+(?:[.,]\d{1,2})?)" and the same for CPI, matched
\* at position i
Match_index(text, i, word) ==
    LET w == Lit(text, i, word)
        from == Spaces(text, Separator(text, w))
    IN  IF w = 0 THEN NoMatch ELSE Group(text, from, Decimal(text, from))

\* "...(?:\s*[:=-])?\s*R\$ *([\d.,]+)" from position w, after the name of
\* the amount
Amount(text, w) ==
    LET r == Lit(text, Spaces(text, Separator(text, w)), patterns.currency)
        from == Blanks(text, r)
    IN  IF r = 0 THEN NoMatch
        ELSE Group(text, from, Run(text, from, Digits \cup {".", ","}))

\* "or[çc]amento(?:\s*total)?(?:\s*[:=-])?\s*R\$ *([\d.,]+)" at position i
Match_budget(text, i) ==
    LET w == Lit(text, i, patterns.budget)
    IN  IF w = 0 THEN NoMatch ELSE Amount(text, Optional(text, w, patterns.total))

\* "custo\s*atual(?:\s*[:=-])?\s*R\$ *([\d.,]+)" at position i
Match_actual_cost(text, i) ==
    LET c == Lit(text, i, patterns.actual_cost)
        w == Lit(text, Spaces(text, c), patterns.atual)
    IN  IF c = 0 \/ w = 0 THEN NoMatch ELSE Amount(text, w)

\* "atraso(?:\s*de)?\s*(\d+)\s*dias?" at position i
Match_delay_days(text, i) ==
    LET w == Lit(text, i, patterns.delay_days)
        from == Spaces(text, Optional(text, w, patterns.de))
        to == Run(text, from, Digits)
    IN  IF w = 0 \/ Lit(text, Spaces(text, to), patterns.dia) = 0 THEN NoMatch
        ELSE Group(text, from, to)

\* the expression of a key matched at position i
MatchAt(text, pattern_key, i) ==
    CASE pattern_key = "project_id" -> Match_project_id(text, i)
      [] pattern_key = "completion_percentage" -> Match_completion_percentage(text, i)
      [] pattern_key = "spi" -> Match_index(text, i, patterns.spi)
      [] pattern_key = "cpi" -> Match_index(text, i, patterns.cpi)
      [] pattern_key = "budget" -> Match_budget(text, i)
      [] pattern_key = "actual_cost" -> Match_actual_cost(text, i)
      [] pattern_key = "delay_days" -> Match_delay_days(text, i)

\* re.search(self.patterns[pattern_key], text, re.IGNORECASE): the match at
\* the leftmost position that has one
search(text, pattern_key) ==
    LET hits == {i \in 1..Len(text) : MatchAt(text, pattern_key, i).matched}
    IN  IF hits = {} THEN NoMatch
        ELSE MatchAt(text, pattern_key, CHOOSE i \in hits : \A j \in hits : i <= j)

\* text.replace(old, new) for single characters
Replace(text, old, new) ==
    [i \in 1..Len(text) |-> IF text[i] = old THEN new ELSE text[i]]

\* StatusTextProcessor._extract_with_regex(text, pattern_key): None, the
\* value, or ValueError when float() raises
_extract_with_regex(text, pattern_key) ==
    LET match == search(text, pattern_key)
    IN  IF ~match.matched THEN NoneV
        ELSE IF pattern_key \in {"budget", "actual_cost"}
        THEN float(Replace(Remove(match.group, <<".">>), ",", "."))
        ELSE IF pattern_key \in {"completion_percentage", "spi", "cpi", "delay_days"}
        THEN float(Replace(match.group, ",", "."))
        ELSE StrOf(match.group)

\* a bool
BoolOf(b) == [t |-> "bool", b |-> b]

\* any(keyword in text.lower() for keyword in keywords)
AnyKeyword(text, keywords) ==
    \E k \in 1..Len(keywords) : Contains(Lower(text), keywords[k])

\* the keys of metrics whose value comes from an expression
MetricKeys ==
    {"completion_percentage", "spi", "cpi", "budget", "actual_cost", "delay_days"}

\* StatusTextProcessor.process_status_file(file_path), f being the file at
\* the path
process_status_file(f) ==
    IF ~f.exists THEN NotFound
    ELSE LET text == f.content
             found == [k \in MetricKeys |-> _extract_with_regex(text, k)]
             kept == {k \in MetricKeys : found[k] # NoneV}
             detected == [k \in {"scope_change_detected", "risk_detected"} |->
                             BoolOf(AnyKeyword(text,
                                 IF k = "risk_detected" THEN patterns.risk_keywords
                                 ELSE patterns.scope_change_keywords))]
         IN  IF \E k \in MetricKeys : found[k] = ValueError THEN Raise("ValueError")
             ELSE [status |-> "success",
                   project_info |->
                       [project_id |-> _extract_with_regex(text, "project_id"),
                        raw_text |-> text],
                   metrics |-> [k \in kept \cup DOMAIN detected |->
                                   IF k \in kept THEN found[k] ELSE detected[k]]]

----------------------------------------------------------------------------
(* The processor's caller: one status text processed. *)

\* the phrases of the status texts drawn
\* "50% concluído"
Phrase_concluido ==
    <<"5","0","%"," ","c","o","n","c","l","u","í","d","o">>
\* "SPI de 0.85"
Phrase_spi_de ==
    <<"S","P","I"," ","d","e"," ","0",".","8","5">>
\* "SPI: 0.85"
Phrase_spi ==
    <<"S","P","I",":"," ","0",".","8","5">>
\* "Atraso de 10 dias"
Phrase_atraso ==
    <<"A","t","r","a","s","o"," ","d","e"," ","1","0"," ","d","i","a","s">>
\* "Houve mudança de escopo"
Phrase_mudanca ==
    <<"H","o","u","v","e"," ","m","u","d","a","n","ç","a"," ","d","e"," ","e",
      "s","c","o","p","o">>
\* "MUDANCA DE ESCOPO"
Phrase_mudanca_maiusculas ==
    <<"M","U","D","A","N","C","A"," ","D","E"," ","E","S","C","O","P","O">>
\* "Escopo Alterado"
Phrase_escopo_alterado ==
    <<"E","s","c","o","p","o"," ","A","l","t","e","r","a","d","o">>
\* "alteração de escopo"
Phrase_alteracao ==
    <<"a","l","t","e","r","a","ç","ã","o"," ","d","e"," ","e","s","c","o","p",
      "o">>
\* "Novo risco"
Phrase_novo_risco ==
    <<"N","o","v","o"," ","r","i","s","c","o">>
\* "nova ameaça"
Phrase_ameaca ==
    <<"n","o","v","a"," ","a","m","e","a","ç","a">>
\* "Risco Identificado"
Phrase_risco_identificado ==
    <<"R","i","s","c","o"," ","I","d","e","n","t","i","f","i","c","a","d",
      "o">>
\* "CPI = 0,92"
Phrase_cpi ==
    <<"C","P","I"," ","="," ","0",",","9","2">>
\* "Orçamento total: R$ 100.000,00"
Phrase_orcamento ==
    <<"O","r","ç","a","m","e","n","t","o"," ","t","o","t","a","l",":"," ","R",
      "$"," ","1","0","0",".","0","0","0",",","0","0">>
\* "orçamento: R$ ."
Phrase_orcamento_ponto ==
    <<"o","r","ç","a","m","e","n","t","o",":"," ","R","$"," ",".">>

MaxPhrases == 3

Phrases ==
    {Phrase_concluido, Phrase_spi_de, Phrase_spi, Phrase_atraso,
       Phrase_mudanca, Phrase_mudanca_maiusculas, Phrase_escopo_alterado,
       Phrase_alteracao, Phrase_novo_risco, Phrase_ameaca,
       Phrase_risco_identificado, Phrase_cpi, Phrase_orcamento,
       Phrase_orcamento_ponto}

\* the separator between two phrases of a text: "... "
Ellipsis == <<".", ".", ".", " ">>

RECURSIVE JoinPhrases(_)
JoinPhrases(phrases) ==
    IF phrases = <<>> THEN <<>>
    ELSE IF Len(phrases) = 1 THEN phrases[1]
    ELSE phrases[1] \o Ellipsis \o JoinPhrases(Tail(phrases))

\* the status texts: at most MaxPhrases phrases
StatusTexts ==
    {JoinPhrases(phrases) : phrases \in UNION {[1..k -> Phrases] : k \in 0..MaxPhrases}}

\* a path with no file, or a file with a status text
InitText ==
    /\ NoEngine
    /\ file \in {NoFile} \cup {[exists |-> TRUE, content |-> text] : text \in StatusTexts}
    /\ index = NoneV
    /\ analysis = NotCalled
    /\ report = NotCalled
    /\ pc = "ready"

ProcessStatusFile ==
    /\ pc = "ready"
    /\ analysis' = process_status_file(file)
    /\ pc' = "text processed"
    /\ UNCHANGED <<file, index, report>>
    /\ UNCHANGED engineVars

NextText == ProcessStatusFile

SpecText == InitText /\ [][NextText]_vars

----------------------------------------------------------------------------
(* Report rendering (generate_report of the two agents).  A report is    *)
(* modelled by the texts of its replacement fields, keyed by the entry     *)
(* they show; the fixed text of the template around them and the           *)
(* "Data da análise" field, the wall clock, are left out.                  *)

\* the decimal digits of a natural number
RECURSIVE NatChars(_)
NatChars(n) ==
    IF n < 10 THEN <<CHOOSE c \in Digits : DigitValue(c) = n>>
    ELSE NatChars(n \div 10) \o NatChars(n % 10)

\* k digits for n < 10^k, zeros in front
RECURSIVE Padded(_, _)
Padded(n, k) ==
    IF k = 0 THEN <<>> ELSE Padded(n \div 10, k - 1) \o NatChars(n % 10)

\* the value in fixed-point notation with k decimals, rounded half to even
\* on the fraction (the double it stands for is rounded alike except on a
\* tie, which no value drawn here is)
FixedPoint(v, k) ==
    LET n == Abs(NumOf(v)) * Pow10(k)
        q == n \div DenOf(v)
        r == n % DenOf(v)
        up == 2 * r > DenOf(v) \/ (2 * r = DenOf(v) /\ q % 2 = 1)
        scaled == IF up THEN q + 1 ELSE q
        sign == IF NumOf(v) < 0 THEN <<"-">> ELSE <<>>
    IN  sign \o NatChars(scaled \div Pow10(k))
             \o (IF k = 0 THEN <<>> ELSE <<".">> \o Padded(scaled % Pow10(k), k))

\* the least k with den dividing 10^k, for a float that is a decimal
RECURSIVE Decimals(_, _)
Decimals(den, k) == IF Pow10(k) % den = 0 THEN k ELSE Decimals(den, k + 1)

\* str(value): the text itself, the digits of an int, the shortest decimal
\* of a float (one decimal at least), for the floats that float() gave
str(value) ==
    CASE value.t = "str" -> value.chars
      [] value.t = "int" ->
             (IF value.n < 0 THEN <<"-">> ELSE <<>>) \o NatChars(Abs(value.n))
      [] value.t = "float" ->
             FixedPoint(value, IF value.den = 1 THEN 1 ELSE Decimals(value.den, 1))

\* format(value, format_spec), as a replacement field "{value:format_spec}"
\* calls it: str(value) for the empty specification, fixed-point notation
\* for ".1f" and ".2f" on a number, ValueError for a text that is no
\* format specification and for "f" on a str
format(value, format_spec) ==
    IF format_spec = "" THEN StrOf(str(value))
    ELSE IF format_spec \in {".1f", ".2f"} /\ value.t \in {"float", "int"}
    THEN StrOf(FixedPoint(value, IF format_spec = ".1f" THEN 1 ELSE 2))
    ELSE ValueError

\* the replacement field "{record.get(key, default):format_spec}"
Field(record, key, default, format_spec) ==
    format(IF key \in DOMAIN record THEN record[key] ELSE default, format_spec)

\* the defaults of the replacement fields
Nao_especificado ==
    StrOf(<<"N","ã","o"," ","e","s","p","e","c","i","f","i","c","a","d","o">>)
Nao_calculado ==
    StrOf(<<"N","ã","o"," ","c","a","l","c","u","l","a","d","o">>)

\* the format specifications of the replacement fields of generate_report:
\* in "{value:.2f if ... else '...'}" all that follows the colon is the
\* specification
FormatSpecs ==
    [spi |-> ".2f if schedule_status.get('spi') is not None else 'Não calculado'",
     orcamento_inicial |-> ".2f if cost_status.get('orcamento_inicial') is not None else 'Não especificado'",
     custo_real |-> ".2f if cost_status.get('custo_real') is not None else 'Não especificado'",
     desvio_orcamento |-> ".2f if cost_status.get('desvio_orcamento') is not None else 'Não especificado'",
     cpi |-> ".2f if cost_status.get('cpi') is not None else 'Não calculado'",
     valor_agregado |-> ".2f if cost_status.get('valor_agregado') is not None else 'Não especificado'",
     estimativa_conclusao |-> ".2f if cost_status.get('estimativa_conclusao') is not None else 'Não especificado'",
     estimativa_termino |-> ".2f if cost_status.get('estimativa_termino') is not None else 'Não especificado'",
     variacao_termino |-> ".2f if cost_status.get('variacao_termino') is not None else 'Não especificado'",
     valor |-> ".2f",
     percentual |-> ".1f"]

\* the report of the fields: ValueError leaves the method if a field raised
Report(fields, lists) ==
    IF \E k \in DOMAIN fields : fields[k] = ValueError THEN Raise("ValueError")
    ELSE [outcome |-> "report", fields |-> fields, lists |-> lists]

\* "ERRO: {analysis_results.get('error')}"
ErrorReport(analysis_results) == [outcome |-> "report", error |-> analysis_results.error]

\* the lines "{i}. {recommendation}"
Numbered(recs) == [i \in 1..Len(recs) |-> [number |-> NatChars(i), text |-> recs[i]]]

\* ScheduleAgent.generate_report(analysis_results)
ScheduleAgent_generate_report(analysis_results) ==
    IF analysis_results.status = "error" THEN ErrorReport(analysis_results)
    ELSE LET project_info == analysis_results.project_info
             schedule_status == analysis_results.schedule_status
         IN  Report([nome |-> Field(project_info, "nome", Nao_especificado, ""),
                     id |-> Field(project_info, "id", Nao_especificado, ""),
                     status |-> Field(schedule_status, "status", Nao_especificado, ""),
                     percentual_conclusao |->
                         Field(schedule_status, "percentual_conclusao", Nao_especificado, ""),
                     spi |-> Field(schedule_status, "spi", Nao_calculado, FormatSpecs.spi),
                     data_inicio |->
                         Field(schedule_status, "data_inicio", Nao_especificado, ""),
                     data_termino_planejada |->
                         Field(schedule_status, "data_termino_planejada", Nao_especificado, ""),
                     data_termino_real |->
                         Field(schedule_status, "data_termino_real", Nao_especificado, ""),
                     atraso_dias |->
                         Field(schedule_status, "atraso_dias", Nao_especificado, ""),
                     motivo_atraso |->
                         Field(schedule_status, "motivo_atraso", Nao_especificado, "")],
                    [health |-> analysis_results.schedule_health.status,
                     recommendations |-> Numbered(analysis_results.recommendations),
                     tarefas_criticas |-> schedule_status.tarefas_criticas.items,
                     tarefas_atrasadas |-> schedule_status.tarefas_atrasadas.items])

\* the line "- {categoria}: R$ {valor:.2f} ({percentual:.1f}%)" of an item
\* of categorias_custos
CategoryFields(item) ==
    [categoria |-> StrOf(item[1]),
     valor |-> Field(item[2], "valor", IntOf(0), FormatSpecs.valor),
     percentual |-> Field(item[2], "percentual", IntOf(0), FormatSpecs.percentual)]

\* CostAgent.generate_report(analysis_results)
CostAgent_generate_report(analysis_results) ==
    IF analysis_results.status = "error" THEN ErrorReport(analysis_results)
    ELSE LET project_info == analysis_results.project_info
             cost_status == analysis_results.cost_status
             Shown(key) ==
                 Field(cost_status, key, Nao_especificado, FormatSpecs[key])
         IN  Report([nome |-> Field(project_info, "nome", Nao_especificado, ""),
                     id |-> Field(project_info, "id", Nao_especificado, ""),
                     orcamento_inicial |-> Shown("orcamento_inicial"),
                     custo_real |-> Shown("custo_real"),
                     desvio_orcamento |-> Shown("desvio_orcamento"),
                     cpi |-> Field(cost_status, "cpi", Nao_calculado, FormatSpecs.cpi),
                     valor_agregado |-> Shown("valor_agregado"),
                     estimativa_conclusao |-> Shown("estimativa_conclusao"),
                     estimativa_termino |-> Shown("estimativa_termino"),
                     variacao_termino |-> Shown("variacao_termino")],
                    [health |-> analysis_results.cost_health.status,
                     recommendations |-> Numbered(analysis_results.recommendations),
                     categorias_custos |->
                         [i \in 1..Len(cost_status.categorias_custos.items) |->
                             CategoryFields(cost_status.categorias_custos.items[i])]])

(* The agents' caller, with the report: an analysis, then the report of   *)
(* the result it returned.                                                *)

GenerateScheduleReport ==
    /\ pc = "schedule analysed"
    /\ "status" \in DOMAIN analysis
    /\ report' = ScheduleAgent_generate_report(analysis)
    /\ pc' = "schedule reported"
    /\ UNCHANGED <<file, index, analysis>>
    /\ UNCHANGED engineVars

GenerateCostReport ==
    /\ pc = "cost analysed"
    /\ "status" \in DOMAIN analysis
    /\ report' = CostAgent_generate_report(analysis)
    /\ pc' = "cost reported"
    /\ UNCHANGED <<file, index, analysis>>
    /\ UNCHANGED engineVars

NextReport ==
    \/ AnalyzeScheduleFile
    \/ AnalyzeCostFile
    \/ GenerateScheduleReport
    \/ GenerateCostReport

SpecReport == InitAnalysis /\ [][NextReport]_vars

----------------------------------------------------------------------------
(* Several evaluations on one engine.  A worker is a thread that calls    *)
(* validate or validate_recommendations on the shared engine; its         *)
(* arguments and the locals of its call (messages, valid, the position in *)
(* the catalog) are its own, self.rules is the engine's.  The workers     *)
(* interleave between two iterations of the loop over the catalog.        *)

NumWorkers == 2

\* the calls a worker may make: [method, domain, data, recommendations]
WorkerCalls ==
    {[method |-> "validate", domain |-> "cronograma",
      data |-> TestRecordOf("cronograma"), recommendations |-> <<>>],
     [method |-> "validate", domain |-> "custos",
      data |-> MakeRecord(<< <<"cpi", StrV("0,75")>>,
                             <<"desvio_orcamento", NumV(Dec(12, 500))>> >>),
      recommendations |-> <<>>],
     [method |-> "validate", domain |-> "qualidade",
      data |-> TestRecordOf("qualidade"), recommendations |-> <<>>],
     [method |-> "validate_recommendations", domain |-> "cronograma",
      data |-> TestRecordOf("cronograma"), recommendations |-> <<Rec_horas_extras>>],
     [method |-> "validate_recommendations", domain |-> "escopo",
      data |-> TestRecordOf("escopo"), recommendations |-> <<Rec_documentar>>]}

\* a worker about to make the call
Worker(call) ==
    [args |-> call, data |-> call.data, recommendations |-> call.recommendations,
     at |-> "ready", i |-> 0, messages |-> <<>>, valid |-> TRUE, result |-> NotCalled]

\* validate_recommendations after its call of validate: the topics
\* required, those missing, and the result dict
RecommendationsOf(validation, recs) ==
    IF \E i \in 1..Len(validation.messages) : ~IsDict(validation.messages[i])
    THEN [outcome |-> "raise", exception |-> "TypeError"]
    ELSE LET missing_topics ==
                 MissingTopics(RequiredTopics(validation.messages), recs)
         IN  [outcome |-> "return",
              valid |-> Len(missing_topics) = 0,
              missing_topics |-> missing_topics,
              additional_recommendations |->
                  AdditionalRecommendations(validation.messages, missing_topics),
              validation_messages |-> validation.messages]

\* what the worker's method returns once validate has returned validation
ResultOf(worker, validation) ==
    IF worker.args.method = "validate" THEN validation
    ELSE RecommendationsOf(validation, worker.recommendations)

\* Variation of RuleStep: the message list is an attribute of the engine,
\* so a message is appended for every worker that is in the loop
RuleStep_shared_messages(ws, w, self_rules) ==
    LET step == ApplyRules(SubSeq(self_rules[ws[w].args.domain], ws[w].i, ws[w].i),
                           ws[w].data, 1, <<>>, ws[w].valid)
    IN  [v \in DOMAIN ws |->
            IF v = w
            THEN [ws[v] EXCEPT !.i = @ + 1, !.valid = step.valid,
                               !.messages = @ \o step.messages]
            ELSE IF ws[v].at = "loop"
            THEN [ws[v] EXCEPT !.messages = @ \o step.messages]
            ELSE ws[v]]

\* one iteration of validate's loop by worker w: the rule at its position
\* is applied to its data, with its messages and its valid
RuleStep(ws, w, self_rules) ==
    LET step == ApplyRules(SubSeq(self_rules[ws[w].args.domain], ws[w].i, ws[w].i),
                           ws[w].data, 1, ws[w].messages, ws[w].valid)
    IN  [ws EXCEPT ![w] = [@ EXCEPT !.i = @ + 1, !.valid = step.valid,
                                    !.messages = step.messages]]

InitWorkers ==
    /\ rules = LoadRules
    /\ domain = "cronograma"
    /\ data = MakeRecord(<<>>)
    /\ recommendations = <<>>
    /\ validation_results = NotCalled
    /\ recommendation_validation = NotCalled
    /\ topic = <<>>
    /\ covered = FALSE
    /\ workers \in [1..NumWorkers -> {Worker(call) : call \in WorkerCalls}]
    /\ pc = "workers"
    /\ NoAgent

\* worker w enters its method: an unknown domain returns at once
Call(w) ==
    /\ workers[w].at = "ready"
    /\ workers' =
           IF workers[w].args.domain \notin DOMAIN rules
           THEN [workers EXCEPT ![w] =
                    [@ EXCEPT !.at = "returned",
                              !.result = ResultOf(workers[w],
                                  validate(rules, workers[w].args.domain, workers[w].data))]]
           ELSE [workers EXCEPT ![w] = [@ EXCEPT !.at = "loop", !.i = 1]]
    /\ UNCHANGED <<rules, domain, data, recommendations, pc, validation_results,
                   recommendation_validation, topic, covered>>
    /\ UNCHANGED agentVars

\* worker w applies the next rule of the catalog
ApplyRule(w) ==
    /\ workers[w].at = "loop"
    /\ workers[w].i <= Len(rules[workers[w].args.domain])
    /\ workers' = RuleStep(workers, w, rules)
    /\ UNCHANGED <<rules, domain, data, recommendations, pc, validation_results,
                   recommendation_validation, topic, covered>>
    /\ UNCHANGED agentVars

\* worker w leaves the loop and returns
Return(w) ==
    /\ workers[w].at = "loop"
    /\ workers[w].i > Len(rules[workers[w].args.domain])
    /\ workers' =
           [workers EXCEPT ![w] =
               [@ EXCEPT !.at = "returned",
                         !.result = ResultOf(workers[w],
                             [valid |-> workers[w].valid,
                              messages |-> workers[w].messages])]]
    /\ UNCHANGED <<rules, domain, data, recommendations, pc, validation_results,
                   recommendation_validation, topic, covered>>
    /\ UNCHANGED agentVars

NextWorkers == \E w \in 1..NumWorkers : Call(w) \/ ApplyRule(w) \/ Return(w)

SpecWorkers == InitWorkers /\ [][NextWorkers]_vars

----------------------------------------------------------------------------
(* The extraction methods called on their own, on texts made of section *)
(* lines: headers, bullets, terminators and other lines.                 *)

\* "Tarefas atrasadas:"
Line_tarefas_atrasadas ==
    <<"T","a","r","e","f","a","s"," ","a","t","r","a","s","a","d","a","s",
      ":">>

\* "  - Testes de segurança"
Line_bullet_indented ==
    <<" "," ","-"," ","T","e","s","t","e","s"," ","d","e"," ","s","e","g","u",
      "r","a","n","ç","a">>

\* "RELATÓRIO DE STATUS"
Line_relatorio ==
    <<"R","E","L","A","T","Ó","R","I","O"," ","D","E"," ","S","T","A","T","U",
      "S">>

\* "- Software: R$ 23000.00"
Line_categoria_software ==
    <<"-"," ","S","o","f","t","w","a","r","e",":"," ","R","$"," ","2","3","0",
      "0","0",".","0","0">>

\* "- Serviços: R$ 46.000,00 (20,0%)"
Line_categoria_formatted ==
    <<"-"," ","S","e","r","v","i","ç","o","s",":"," ","R","$"," ","4","6",".",
      "0","0","0",",","0","0"," ","(","2","0",",","0","%",")">>

MaxSectionLines == 4

ScheduleSectionLines ==
    {Line_tarefas_criticas, Line_tarefas_atrasadas, Line_bullet, Line_bullet_indented,
     Line_blank, Line_relatorio, Line_status}

CostSectionLines ==
    {Line_categorias, Line_categoria, Line_categoria_software, Line_categoria_formatted,
     Line_blank, Line_relatorio, Line_cpi}

SectionTexts ==
    Texts(ScheduleSectionLines, MaxSectionLines) \cup Texts(CostSectionLines, MaxSectionLines)

InitSections ==
    /\ NoEngine
    /\ file \in {[exists |-> TRUE, content |-> text] : text \in SectionTexts}
    /\ index = NoneV
    /\ analysis = NotCalled
    /\ report = NotCalled
    /\ pc = "ready"

ExtractScheduleStatus ==
    /\ pc = "ready"
    /\ analysis' = _extract_schedule_status(file.content)
    /\ pc' = "schedule extracted"
    /\ UNCHANGED <<file, index, report>>
    /\ UNCHANGED engineVars

ExtractCostStatus ==
    /\ pc = "ready"
    /\ analysis' = _extract_cost_status(file.content)
    /\ pc' = "cost extracted"
    /\ UNCHANGED <<file, index, report>>
    /\ UNCHANGED engineVars

NextSections == ExtractScheduleStatus \/ ExtractCostStatus

SpecSections == InitSections /\ [][NextSections]_vars

----------------------------------------------------------------------------
(* The agents' records handed to the rule engine.  The repository has no  *)
(* caller that does it; the methods are composed as their signatures      *)
(* allow: validate(domain, data) takes any dict.  A value of the agents    *)
(* is carried over to the engine's representation of the same Python      *)
(* value.                                                                  *)

\* the whole thousandths of a number, rounded down.  The comparisons of
\* the catalogs that read an extracted key are v < k with k a whole number
\* of thousandths, which holds of v exactly when it holds of v rounded
\* down, and desvio_orcamento > 10, exact on a whole number of thousandths.
Thousandths(v) ==
    LET num == NumOf(v)
        den == DenOf(v)
    IN  (num \div den) * 1000 + ((num % den) * 1000) \div den

\* the number is a whole number of thousandths
WholeThousandths(v) == ((NumOf(v) % DenOf(v)) * 1000) % DenOf(v) = 0

\* the characters of a text as one string
RECURSIVE TextOf(_)
TextOf(chars) == IF chars = <<>> THEN "" ELSE chars[1] \o TextOf(Tail(chars))

\* the same Python value, as the engine's conditions read it
EngineValue(v) ==
    CASE v.t = "none"  -> NoneV
      [] v.t = "float" -> NumV(Thousandths(v))
      [] v.t = "int"   -> NumV(Thousandths(v))
      [] v.t = "str"   -> StrV(TextOf(v.chars))
      [] v.t = "list"  -> ListV(Len(v.items))
      [] v.t = "dict"  -> [t |-> "dict", n |-> Len(v.items), s |-> ""]

EngineRecord(status) == [k \in DOMAIN status |-> EngineValue(status[k])]

\* the number of critical tasks of the record the index is put in
TaskCounts == {0, 2}

\* validate on a record that holds the index just assessed, with or
\* without critical tasks
ValidateIndex ==
    /\ pc \in {"schedule health", "cost health"}
    /\ \E tasks \in TaskCounts :
          data' = (IF pc = "schedule health"
                   THEN MakeRecord(<< <<"spi", EngineValue(index)>>,
                                      <<"tarefas_criticas", ListV(tasks)>> >>)
                   ELSE MakeRecord(<< <<"cpi", EngineValue(index)>> >>))
    /\ domain' = (IF pc = "schedule health" THEN "cronograma" ELSE "custos")
    /\ validation_results' = validate(rules, domain', data')
    /\ pc' = (IF pc = "schedule health" THEN "schedule validated" ELSE "cost validated")
    /\ UNCHANGED <<rules, recommendations, recommendation_validation, topic, covered,
                   workers>>
    /\ UNCHANGED agentVars

NextAgreement == EvaluateScheduleHealth \/ EvaluateCostHealth \/ ValidateIndex

SpecAgreement == InitHealth /\ [][NextAgreement]_vars

\* "Índice de Desempenho de Cronograma (SPI): 0.75"
Line_spi_075 ==
    <<"Í","n","d","i","c","e"," ","d","e"," ","D","e","s","e","m","p","e","n",
      "h","o"," ","d","e"," ","C","r","o","n","o","g","r","a","m","a"," ","(",
      "S","P","I",")",":"," ","0",".","7","5">>

\* "Desvio orçamentário: 12.5%"
Line_desvio_125 ==
    <<"D","e","s","v","i","o"," ","o","r","ç","a","m","e","n","t","á","r","i",
      "o",":"," ","1","2",".","5","%">>

MaxGuardLines == 3

\* the lines of the reports analysed before an evaluation of the rules
GuardScheduleLines ==
    {Line_spi_075, Line_ev, Line_pv, Line_atraso, Line_tarefas_criticas, Line_bullet}
GuardCostLines ==
    {Line_cpi, Line_ev, Line_ac, Line_desvio, Line_desvio_125, Line_categorias,
     Line_categoria}

GuardReports ==
    Texts(GuardScheduleLines, MaxGuardLines) \cup Texts(GuardCostLines, MaxGuardLines)

InitGuard ==
    /\ NoEngine
    /\ file \in {NoFile} \cup {[exists |-> TRUE, content |-> text] : text \in GuardReports}
    /\ index = NoneV
    /\ analysis = NotCalled
    /\ report = NotCalled
    /\ pc = "ready"

\* validate on the status record of a successful analysis
ValidateStatus ==
    /\ pc \in {"schedule analysed", "cost analysed"}
    /\ "status" \in DOMAIN analysis
    /\ analysis.status = "success"
    /\ data' = (IF pc = "schedule analysed"
                THEN EngineRecord(analysis.schedule_status)
                ELSE EngineRecord(analysis.cost_status))
    /\ domain' = (IF pc = "schedule analysed" THEN "cronograma" ELSE "custos")
    /\ validation_results' = validate(rules, domain', data')
    /\ pc' = (IF pc = "schedule analysed" THEN "schedule validated" ELSE "cost validated")
    /\ UNCHANGED <<rules, recommendations, recommendation_validation, topic, covered,
                   workers>>
    /\ UNCHANGED agentVars

NextGuard == AnalyzeScheduleFile \/ AnalyzeCostFile \/ ValidateStatus

SpecGuard == InitGuard /\ [][NextGuard]_vars

----------------------------------------------------------------------------
(* Vocabulary of the properties *)

\* the domain has a catalog
Known == domain \in DOMAIN rules
Catalog == rules[domain]

\* validate has returned
Validated == pc \in {"validated", "done"}
\* validate_recommendations has returned its dict
Returned == pc = "done" /\ recommendation_validation.outcome = "return"

\* the condition of the rule holds on the record
Holds(rule) == Condition(rule, data) = "true"
Raises(rule) == Condition(rule, data) = "raise"

\* the record holds a truthy requirement_<rule id>_met entry
RequirementFlag(rule) == "requirement_" \o rule.id \o "_met"
FlagSet(rule) ==
    /\ RequirementFlag(rule) \in DOMAIN data
    /\ Truthy(data[RequirementFlag(rule)])

\* the positions of the messages of a rule, by kind
ErrorsOf(rule, messages) ==
    {j \in 1..Len(messages) :
        messages[j].rule_id = rule.id /\ messages[j].action = "error"}
FiredOf(rule, messages) ==
    {j \in 1..Len(messages) :
        messages[j].rule_id = rule.id /\ messages[j].action # "error"}

\* some message has the action
SomeMessage(messages, action) ==
    \E j \in 1..Len(messages) : messages[j].action = action

----------------------------------------------------------------------------
(* C1: for a known domain, validate returns valid = true if and only if   *)
(* every rule with action "require" whose condition evaluates to true has  *)
(* a truthy requirement_<rule_id>_met entry in the record; fired "notify"  *)
(* and "recommend" rules have no part in valid.                            *)
C1_ValidIffRequirementsMet ==
    (Validated /\ Known) =>
        (validation_results.valid <=>
            \A i \in 1..Len(Catalog) :
                (Catalog[i].action = "require" /\ Holds(Catalog[i]))
                    => FlagSet(Catalog[i]))

\* a valid result in which a "require" rule and a "notify" rule fired
C1_Witness ==
    /\ Validated /\ Known
    /\ validation_results.valid
    /\ SomeMessage(validation_results.messages, "require")
    /\ SomeMessage(validation_results.messages, "notify")

(* C2: partial-failure isolation.  validate evaluates every rule of the   *)
(* catalog: a rule whose condition raises contributes exactly one "error"  *)
(* message with its id, every other rule contributes its fired message     *)
(* exactly when its condition is true, and the fired messages and valid    *)
(* are those of the catalog without the raising rules.                     *)
C2_PartialFailureIsolation ==
    (Validated /\ Known) =>
        LET messages == validation_results.messages
            without == ApplyRules(SelectSeq(Catalog, LAMBDA r : ~Raises(r)),
                                  data, 1, <<>>, TRUE)
        IN  /\ \A i \in 1..Len(Catalog) :
                  /\ Cardinality(ErrorsOf(Catalog[i], messages)) =
                         (IF Raises(Catalog[i]) THEN 1 ELSE 0)
                  /\ Cardinality(FiredOf(Catalog[i], messages)) =
                         (IF Holds(Catalog[i]) THEN 1 ELSE 0)
                  /\ \A j \in FiredOf(Catalog[i], messages) :
                         messages[j] = FiredMessage(Catalog[i])
            /\ \A j \in 1..Len(messages) :
                  \E i \in 1..Len(Catalog) : messages[j].rule_id = Catalog[i].id
            /\ SelectSeq(messages, LAMBDA m : m.action # "error") = without.messages
            /\ validation_results.valid = without.valid

\* a rule raised and a later rule of the catalog still fired
C2_Witness ==
    /\ Validated /\ Known
    /\ \E i, j \in 1..Len(validation_results.messages) :
          /\ i < j
          /\ validation_results.messages[i].action = "error"
          /\ validation_results.messages[j].action # "error"

----------------------------------------------------------------------------
(* Coverage, stated on the characters of the texts.  A keyword of a name  *)
(* is a maximal run of non-space characters of the lower-cased name, more  *)
(* than 4 characters long and no stop word, given by its first and last    *)
(* position.                                                               *)

IsKeywordSpan(low, i, j) ==
    /\ j - i + 1 > 4
    /\ (i = 1 \/ IsSpace(low[i - 1]))
    /\ (j = Len(low) \/ IsSpace(low[j + 1]))
    /\ \A k \in i..j : ~IsSpace(low[k])
    /\ SubSeq(low, i, j) \notin StopWords

\* the characters i..j of low stand in text from position o on
OccursAt(text, o, low, i, j) ==
    /\ o + (j - i) <= Len(text)
    /\ \A k \in 0..(j - i) : text[o + k] = low[i + k]

\* some recommendation, lower-cased, contains some keyword of the name
Covers(recs, name) ==
    LET low == Lower(name)
    IN  \E i \in 1..Len(low) : \E j \in (i + 4)..Len(low) :
            /\ IsKeywordSpan(low, i, j)
            /\ \E r \in 1..Len(recs) :
                   LET text == Lower(recs[r])
                   IN  \E o \in 1..Len(text) : OccursAt(text, o, low, i, j)

\* the elements of a sequence
Range(seq) == {seq[i] : i \in 1..Len(seq)}

(* C3: missing_topics of validate_recommendations is exactly the names of *)
(* the fired "require" rules that no recommendation covers, in fired       *)
(* order, and valid is true if and only if missing_topics is empty; no     *)
(* name of a rule that did not fire, or of a "notify" or "recommend" rule, *)
(* is in missing_topics.                                                   *)
C3_MissingTopicsExact ==
    (Returned /\ Known) =>
        LET uncovered ==
                SelectSeq(Catalog,
                          LAMBDA r : /\ r.action = "require"
                                     /\ Holds(r)
                                     /\ ~Covers(recommendations, r.name))
        IN  /\ recommendation_validation.missing_topics =
                   [i \in 1..Len(uncovered) |-> uncovered[i].name]
            /\ recommendation_validation.valid =
                   (recommendation_validation.missing_topics = <<>>)
            /\ \A i \in 1..Len(Catalog) :
                   (~Holds(Catalog[i]) \/ Catalog[i].action # "require")
                       => Catalog[i].name \notin
                              Range(recommendation_validation.missing_topics)

\* some fired "require" rule is covered and another is missing, and a
\* "notify" rule fired
C3_Witness ==
    /\ Returned /\ Known
    /\ Len(recommendation_validation.missing_topics) >= 1
    /\ \E i \in 1..Len(Catalog) :
          /\ Catalog[i].action = "require" /\ Holds(Catalog[i])
          /\ Catalog[i].name \notin Range(recommendation_validation.missing_topics)
    /\ SomeMessage(recommendation_validation.validation_messages, "notify")

(* C4: additional_recommendations is exactly the sequence, in fired       *)
(* order, of the message texts of every fired "recommend" rule and of      *)
(* every fired "require" rule whose name is in missing_topics; it holds no *)
(* text of a "notify" rule, of an "error" message or of a "require" rule   *)
(* whose topic is covered.                                                 *)
C4_AdditionalRecommendationsExact ==
    (Returned /\ Known) =>
        LET missing == Range(recommendation_validation.missing_topics)
            additional == recommendation_validation.additional_recommendations
            added ==
                SelectSeq(Catalog,
                          LAMBDA r : /\ Holds(r)
                                     /\ \/ r.action = "recommend"
                                        \/ (r.action = "require" /\ r.name \in missing))
        IN  /\ additional = [i \in 1..Len(added) |-> added[i].message]
            /\ \A i \in 1..Len(Catalog) :
                   (\/ Catalog[i].action = "notify"
                    \/ Raises(Catalog[i])
                    \/ (Catalog[i].action = "require" /\ Catalog[i].name \notin missing))
                       => Catalog[i].message \notin Range(additional)
            /\ \A k \in 1..Len(additional) :
                   additional[k] # "Erro ao aplicar regra: TypeError"

\* a "recommend" text and the text of a missing "require" rule were added,
\* while a covered "require" rule, a "notify" rule and an "error" message
\* are among the validation messages
C4_Witness ==
    /\ Returned /\ Known
    /\ \E i, j \in 1..Len(Catalog) :
          /\ Catalog[i].action = "recommend" /\ Catalog[j].action = "require"
          /\ {Catalog[i].message, Catalog[j].message} \subseteq
                 Range(recommendation_validation.additional_recommendations)
    /\ \E i \in 1..Len(Catalog) :
          /\ Catalog[i].action = "require" /\ Holds(Catalog[i])
          /\ Catalog[i].name \notin Range(recommendation_validation.missing_topics)
    /\ SomeMessage(recommendation_validation.validation_messages, "notify")
    /\ SomeMessage(recommendation_validation.validation_messages, "error")

\* the record without its requirement_<rule id>_met entries
StripFlags(d) ==
    [k \in DOMAIN d \ {RequirementFlag(Catalog[i]) : i \in 1..Len(Catalog)} |-> d[k]]

(* C5: the result of validate_recommendations does not depend on the      *)
(* requirement_<rule_id>_met entries: valid, missing_topics and            *)
(* additional_recommendations are those obtained for the record with these *)
(* entries removed, so two records that differ only in these entries get   *)
(* the same three values for the same recommendation list, whatever valid  *)
(* flags validate returns for them.                                        *)
C5_IndependentOfRequirementFlags ==
    (Returned /\ Known) =>
        LET other == validate_recommendations(rules, domain, recommendations,
                                              StripFlags(data))
        IN  /\ other.outcome = "return"
            /\ other.valid = recommendation_validation.valid
            /\ other.missing_topics = recommendation_validation.missing_topics
            /\ other.additional_recommendations =
                   recommendation_validation.additional_recommendations

\* validate found the record valid and finds it invalid without its
\* requirement entries, and the recommendations were found incomplete
C5_Witness ==
    /\ Returned /\ Known
    /\ validation_results.valid
    /\ ~validate(rules, domain, StripFlags(data)).valid
    /\ ~recommendation_validation.valid

(* C6: a topic is covered if and only if at least one recommendation,     *)
(* lower-cased, contains as a substring at least one keyword of the name:  *)
(* a lower-cased whitespace-separated token of the name that is longer     *)
(* than 4 characters and no stop word.  With an empty list, or a list      *)
(* sharing no keyword with the topic, the topic is not covered.            *)
C6_CoveredIffKeywordOccurs ==
    pc = "checked" => (covered <=> Covers(recommendations, topic))

\* "Notificação para CPI crítico" is covered by the one recommendation
\* "Enviar notificação sobre o CPI crítico"
C6_Witness ==
    /\ pc = "checked"
    /\ topic = Name_COST_001
    /\ recommendations = <<Rec_notificacao>>
    /\ covered

(* C7: for an unknown domain validate returns an explicit invalid result: *)
(* valid = false and one message naming the domain, whatever the record.   *)
C7_UnknownDomainInvalid ==
    (Validated /\ ~Known) =>
        /\ validation_results.valid = FALSE
        /\ validation_results.messages = <<[str |-> "Domínio inválido: " \o domain]>>

\* validate has returned for the unknown domain and a record with entries
C7_Witness ==
    /\ Validated /\ ~Known
    /\ DOMAIN data # {}
    /\ validation_results.valid = FALSE

(* C8: validate_recommendations never raises and returns a complete       *)
(* result (valid, missing_topics, additional_recommendations) for every    *)
(* domain string, recommendation list and record.                          *)
C8_NeverRaises ==
    pc = "done" =>
        /\ recommendation_validation.outcome = "return"
        /\ {"valid", "missing_topics", "additional_recommendations"}
               \subseteq DOMAIN recommendation_validation

----------------------------------------------------------------------------
(* Rule firing, stated on the entries of the record *)

\* the record holds the key with a value other than None
Has(key) == key \in DOMAIN data /\ data[key].t # "none"
\* ... with a number
HasNumber(key) == Has(key) /\ data[key].t \in {"num", "bool"}
NumberAt(key) == IF data[key].t = "bool" THEN Dec(data[key].n, 0) ELSE data[key].n
\* ... with a non-empty list or text
NonEmptyAt(key) == Has(key) /\ data[key].t \in {"list", "str"} /\ data[key].n > 0

\* validate returned a fired message of the rule with the action
Fires(id, action) ==
    \E j \in 1..Len(validation_results.messages) :
        /\ validation_results.messages[j].rule_id = id
        /\ validation_results.messages[j].action = action

(* C9: on a schedule record SCH-001 (notify) fires exactly when spi is    *)
(* present and below 0.8, SCH-002 (require) exactly when spi is present    *)
(* and below 0.9, SCH-003 (require) exactly when atraso_dias and           *)
(* duracao_planejada are present and atraso_dias is strictly greater than  *)
(* 10% of duracao_planejada, SCH-004 (require) exactly when replanejamento *)
(* is true, and SCH-005 (recommend) exactly when spi is below 0.9 and      *)
(* tarefas_criticas is non-empty; spi = 0.8, spi = 0.9 and a delay of      *)
(* exactly 10% do not fire.                                                *)
C9_ScheduleRulesFire ==
    (Validated /\ domain = "cronograma") =>
        /\ Fires("SCH-001", "notify") <=>
               (HasNumber("spi") /\ NumberAt("spi") < Dec(0, 800))
        /\ Fires("SCH-002", "require") <=>
               (HasNumber("spi") /\ NumberAt("spi") < Dec(0, 900))
        /\ Fires("SCH-003", "require") <=>
               /\ HasNumber("atraso_dias") /\ HasNumber("duracao_planejada")
               /\ 10 * NumberAt("atraso_dias") > NumberAt("duracao_planejada")
        /\ Fires("SCH-004", "require") <=>
               (Has("replanejamento") /\ data["replanejamento"] = BoolV(TRUE))
        /\ Fires("SCH-005", "recommend") <=>
               /\ HasNumber("spi") /\ NumberAt("spi") < Dec(0, 900)
               /\ NonEmptyAt("tarefas_criticas")

\* spi 0.75, a delay of 15 days on 100: SCH-001, SCH-002 and SCH-003 fire
C9_Witness ==
    /\ Validated /\ domain = "cronograma"
    /\ Has("spi") /\ data["spi"] = NumV(Dec(0, 750))
    /\ Has("atraso_dias") /\ data["atraso_dias"] = NumV(Dec(15, 0))
    /\ Has("duracao_planejada") /\ data["duracao_planejada"] = NumV(Dec(100, 0))
    /\ Fires("SCH-001", "notify")
    /\ Fires("SCH-002", "require")
    /\ Fires("SCH-003", "require")

(* C10: on a cost record COST-001 (notify) fires exactly when cpi is      *)
(* present and below 0.8, COST-002 (require) and COST-005 (recommend)      *)
(* exactly when cpi is present and below 0.9, COST-003 (require) exactly   *)
(* when desvio_orcamento is present and above 10, and COST-004 (require)   *)
(* exactly when realocacao_orcamento is present and above 5; the values    *)
(* 0.8, 0.9, 10 and 5 themselves do not fire.                              *)
C10_CostRulesFire ==
    (Validated /\ domain = "custos") =>
        /\ Fires("COST-001", "notify") <=>
               (HasNumber("cpi") /\ NumberAt("cpi") < Dec(0, 800))
        /\ Fires("COST-002", "require") <=>
               (HasNumber("cpi") /\ NumberAt("cpi") < Dec(0, 900))
        /\ Fires("COST-005", "recommend") <=>
               (HasNumber("cpi") /\ NumberAt("cpi") < Dec(0, 900))
        /\ Fires("COST-003", "require") <=>
               (HasNumber("desvio_orcamento") /\ NumberAt("desvio_orcamento") > Dec(10, 0))
        /\ Fires("COST-004", "require") <=>
               (HasNumber("realocacao_orcamento")
                    /\ NumberAt("realocacao_orcamento") > Dec(5, 0))

\* cpi 0.85, a deviation of 12.5 and a reallocation of 6: every cost rule
\* but COST-001 fires
C10_Witness ==
    /\ Validated /\ domain = "custos"
    /\ Has("cpi") /\ data["cpi"] = NumV(Dec(0, 850))
    /\ ~Fires("COST-001", "notify")
    /\ Fires("COST-002", "require")
    /\ Fires("COST-003", "require")
    /\ Fires("COST-004", "require")
    /\ Fires("COST-005", "recommend")

\* ... with a non-empty list
NonEmptyListAt(key) == Has(key) /\ data[key].t = "list" /\ data[key].n > 0

(* C11: on a scope record, mudanca_escopo = "Sim" fires both SCOPE-001    *)
(* and SCOPE-005 as "require"; SCOPE-002 fires exactly when                *)
(* impacto_cronograma is above 10, SCOPE-003 exactly when                  *)
(* impacto_custo_percentual is above 5 and SCOPE-004 exactly when          *)
(* num_mudancas_escopo is above 3, whatever mudanca_escopo holds; the five *)
(* scope rules all have the action "require".                              *)
C11_ScopeRulesFire ==
    (Validated /\ domain = "escopo") =>
        /\ (Has("mudanca_escopo") /\ data["mudanca_escopo"] = StrV("Sim")) =>
               (Fires("SCOPE-001", "require") /\ Fires("SCOPE-005", "require"))
        /\ Fires("SCOPE-002", "require") <=>
               (HasNumber("impacto_cronograma")
                    /\ NumberAt("impacto_cronograma") > Dec(10, 0))
        /\ Fires("SCOPE-003", "require") <=>
               (HasNumber("impacto_custo_percentual")
                    /\ NumberAt("impacto_custo_percentual") > Dec(5, 0))
        /\ Fires("SCOPE-004", "require") <=>
               (HasNumber("num_mudancas_escopo")
                    /\ NumberAt("num_mudancas_escopo") > Dec(3, 0))
        /\ Len(Catalog) = 5
        /\ \A i \in 1..Len(Catalog) : Catalog[i].action = "require"

\* no scope change declared, a schedule impact of 15 days and 4 changes:
\* SCOPE-002 and SCOPE-004 fire, SCOPE-001 and SCOPE-005 do not
C11_Witness ==
    /\ Validated /\ domain = "escopo"
    /\ ~Has("mudanca_escopo")
    /\ Has("impacto_cronograma") /\ data["impacto_cronograma"] = NumV(Dec(15, 0))
    /\ Has("num_mudancas_escopo") /\ data["num_mudancas_escopo"] = NumV(Dec(4, 0))
    /\ Fires("SCOPE-002", "require")
    /\ Fires("SCOPE-004", "require")
    /\ ~Fires("SCOPE-001", "require")
    /\ ~Fires("SCOPE-005", "require")

(* C12: on every risk record, the empty one included, RISK-003            *)
(* (recommend) fires, so validate returns at least one message and         *)
(* validate_recommendations at least one additional recommendation;        *)
(* RISK-001 and RISK-002 (require) fire exactly when riscos_altos,         *)
(* respectively riscos_criticos, is a non-empty list, RISK-004 (notify)    *)
(* exactly when novos_riscos_altos is one and RISK-005 (recommend) exactly *)
(* when riscos_alta_exposicao is one.                                      *)
C12_RiskRulesFire ==
    (Validated /\ domain = "riscos") =>
        /\ Fires("RISK-003", "recommend")
        /\ Len(validation_results.messages) >= 1
        /\ pc = "done" =>
               /\ recommendation_validation.outcome = "return"
               /\ Len(recommendation_validation.additional_recommendations) >= 1
        /\ Fires("RISK-001", "require") <=> NonEmptyListAt("riscos_altos")
        /\ Fires("RISK-002", "require") <=> NonEmptyListAt("riscos_criticos")
        /\ Fires("RISK-004", "notify") <=> NonEmptyListAt("novos_riscos_altos")
        /\ Fires("RISK-005", "recommend") <=> NonEmptyListAt("riscos_alta_exposicao")

\* the empty risk record: RISK-003 alone fires and its text is the one
\* additional recommendation
C12_Witness ==
    /\ pc = "done" /\ domain = "riscos"
    /\ DOMAIN data = {}
    /\ Len(validation_results.messages) = 1
    /\ Fires("RISK-003", "recommend")
    /\ recommendation_validation.outcome = "return"
    /\ Len(recommendation_validation.additional_recommendations) = 1

\* the position in the catalog of the rule a message names
CatalogIndex(m) == CHOOSE i \in 1..Len(Catalog) : Catalog[i].id = m.rule_id

(* C13: the messages of validate are in catalog order: every message      *)
(* names a rule of the catalog, no rule has two messages, and of two       *)
(* messages the one whose rule is earlier in the catalog is earlier in     *)
(* the list, fired and "error" messages alike.                             *)
C13_MessagesInCatalogOrder ==
    (Validated /\ Known) =>
        LET messages == validation_results.messages
        IN  /\ \A j \in 1..Len(messages) :
                   \E i \in 1..Len(Catalog) : Catalog[i].id = messages[j].rule_id
            /\ \A j, k \in 1..Len(messages) :
                   j < k => CatalogIndex(messages[j]) < CatalogIndex(messages[k])

\* an "error" message of a later rule follows a fired message of an
\* earlier one, and a fired message follows an "error" message
C13_Witness ==
    /\ Validated /\ Known
    /\ LET messages == validation_results.messages
       IN  /\ \E j, k \in 1..Len(messages) :
                  j < k /\ messages[j].action # "error" /\ messages[k].action = "error"
           /\ \E j, k \in 1..Len(messages) :
                  j < k /\ messages[j].action = "error" /\ messages[k].action # "error"

----------------------------------------------------------------------------
(* The agents' results, stated on the report text and the returned dict *)

\* the method returned its result dict for an existing file
ScheduleSuccess ==
    pc = "schedule analysed" /\ "status" \in DOMAIN analysis /\ analysis.status = "success"
CostSuccess ==
    pc = "cost analysed" /\ "status" \in DOMAIN analysis /\ analysis.status = "success"

\* the lines of the report
ReportLines == SplitOn(file.content, <<"\n">>)

\* the record holds every key
HasKeys(record, keys) == keys \subseteq DOMAIN record

\* v > 0, and q = a / b, on fractions
Positive(v) == NumOf(v) > 0
IsQuotient(q, a, b) == NumOf(q) * DenOf(a) * NumOf(b) = NumOf(a) * DenOf(b) * DenOf(q)

\* the index can be derived from the record: it has none, and it has the
\* earned value and a positive denominator
Derivable(record, key, denominator) ==
    /\ key \notin DOMAIN record
    /\ HasKeys(record, {"valor_agregado", denominator})
    /\ Positive(record[denominator])

(* C14: when the extracted schedule record has no spi but has             *)
(* valor_agregado and a positive valor_planejado, the analysis returns the *)
(* record with spi = EV / PV and the health assessed on that spi; likewise *)
(* for cpi = EV / AC on a cost record with a positive custo_real.          *)
(* EV = 212500 and PV = 250000 give spi 0.85 and the health "warning".     *)
C14_DerivedIndex ==
    /\ (pc = "schedule analysed" /\ file.exists) =>
          LET extracted == _extract_schedule_status(file.content)
          IN  Derivable(extracted, "spi", "valor_planejado") =>
                  /\ ScheduleSuccess
                  /\ "spi" \in DOMAIN analysis.schedule_status
                  /\ IsQuotient(analysis.schedule_status["spi"],
                                extracted["valor_agregado"], extracted["valor_planejado"])
                  /\ analysis.schedule_health =
                         _evaluate_schedule_health(analysis.schedule_status["spi"])
                  /\ (/\ extracted["valor_agregado"] = Fraction(212500, 1)
                      /\ extracted["valor_planejado"] = Fraction(250000, 1)) =>
                         /\ analysis.schedule_status["spi"] = Fraction(85, 100)
                         /\ analysis.schedule_health.status = "warning"
    /\ (pc = "cost analysed" /\ file.exists) =>
          LET extracted == _extract_cost_status(file.content)
          IN  Derivable(extracted, "cpi", "custo_real") =>
                  /\ CostSuccess
                  /\ "cpi" \in DOMAIN analysis.cost_status
                  /\ IsQuotient(analysis.cost_status["cpi"],
                                extracted["valor_agregado"], extracted["custo_real"])
                  /\ analysis.cost_health =
                         _evaluate_cost_health(analysis.cost_status["cpi"])

\* the report "Valor Agregado (EV): R$ 212500.00" / "Valor Planejado (PV):
\* R$ 250000.00": spi 0.85 is derived and the health is "warning"
C14_Witness ==
    /\ ScheduleSuccess
    /\ file.content = JoinLines(<<Line_ev, Line_pv>>)
    /\ "spi" \notin DOMAIN _extract_schedule_status(file.content)
    /\ analysis.schedule_status["spi"] = Fraction(85, 100)
    /\ analysis.schedule_health.status = "warning"

\* the index cannot be derived from the record: it has none, and the
\* earned value or the denominator is missing, or the denominator is zero
\* or negative
NotDerivable(record, key, denominator) ==
    /\ key \notin DOMAIN record
    /\ \/ "valor_agregado" \notin DOMAIN record
       \/ denominator \notin DOMAIN record
       \/ ~Positive(record[denominator])

(* C15: when the extracted record has no index and the denominator (PV    *)
(* for spi, AC for cpi) is zero, negative or absent, or EV is absent, the  *)
(* derivation step does not raise and leaves the record without the index, *)
(* the health assessed on it is "unknown", and a result the analysis       *)
(* returns has no index and the health "unknown".                          *)
C15_NoDivisionByZero ==
    /\ (pc = "schedule analysed" /\ file.exists) =>
          LET extracted == _extract_schedule_status(file.content)
              derived == DeriveSPI(extracted)
          IN  NotDerivable(extracted, "spi", "valor_planejado") =>
                  /\ derived.spi = NoneV
                  /\ "spi" \notin DOMAIN derived.schedule_status
                  /\ _evaluate_schedule_health(derived.spi).status = "unknown"
                  /\ ScheduleSuccess
                  /\ "spi" \notin DOMAIN analysis.schedule_status
                  /\ analysis.schedule_health.status = "unknown"
    /\ (pc = "cost analysed" /\ file.exists) =>
          LET extracted == _extract_cost_status(file.content)
              derived == DeriveCPI(extracted)
          IN  NotDerivable(extracted, "cpi", "custo_real") =>
                  /\ derived.cpi = NoneV
                  /\ "cpi" \notin DOMAIN derived.cost_status
                  /\ _evaluate_cost_health(derived.cpi).status = "unknown"
                  /\ CostSuccess =>
                         /\ "cpi" \notin DOMAIN analysis.cost_status
                         /\ analysis.cost_health.status = "unknown"

\* the report with an earned value and the planned value "R$ 0.00": no
\* spi in the record, health "unknown"
C15_Witness ==
    /\ ScheduleSuccess
    /\ file.content = JoinLines(<<Line_ev, Line_pv_zero>>)
    /\ HasKeys(analysis.schedule_status, {"valor_agregado", "valor_planejado"})
    /\ analysis.schedule_status["valor_planejado"] = Fraction(0, 1)
    /\ "spi" \notin DOMAIN analysis.schedule_status
    /\ analysis.schedule_health.status = "unknown"

\* the two records agree on every key but the one
SameBut(a, b, key) ==
    /\ DOMAIN a \ {key} = DOMAIN b \ {key}
    /\ \A k \in DOMAIN a \ {key} : a[k] = b[k]

(* C16: the derivation step is idempotent and only fills an absent index: *)
(* applied to its own result it changes nothing, an extracted spi (cpi) is *)
(* kept whatever EV / PV (EV / AC) is, and every other entry of the record *)
(* is as extracted; the record the analysis returns is the record derived  *)
(* once.                                                                   *)
C16_DerivationIdempotent ==
    /\ (pc = "schedule analysed" /\ file.exists) =>
          LET extracted == _extract_schedule_status(file.content)
              once == DeriveSPI(extracted)
              twice == DeriveSPI(once.schedule_status)
          IN  /\ twice = once
              /\ "spi" \in DOMAIN extracted =>
                     once.schedule_status["spi"] = extracted["spi"]
              /\ SameBut(once.schedule_status, extracted, "spi")
              /\ ScheduleSuccess => analysis.schedule_status = once.schedule_status
    /\ (pc = "cost analysed" /\ file.exists) =>
          LET extracted == _extract_cost_status(file.content)
              once == DeriveCPI(extracted)
              twice == DeriveCPI(once.cost_status)
          IN  /\ twice = once
              /\ "cpi" \in DOMAIN extracted =>
                     once.cost_status["cpi"] = extracted["cpi"]
              /\ SameBut(once.cost_status, extracted, "cpi")
              /\ CostSuccess => analysis.cost_status = once.cost_status

\* a cost report that states the CPI 0.95 and an earned value and actual
\* cost whose quotient is another number: the record keeps 0.95
C16_Witness ==
    /\ CostSuccess
    /\ file.content = JoinLines(<<Line_cpi, Line_ev, Line_ac>>)
    /\ analysis.cost_status["cpi"] = Fraction(95, 100)
    /\ ~IsQuotient(analysis.cost_status["cpi"], analysis.cost_status["valor_agregado"],
                   analysis.cost_status["custo_real"])

\* v >= h hundredths, on a fraction
AtLeast(v, h) == 100 * NumOf(v) >= h * DenOf(v)

\* the status of the band an index is in, the bands given by their lower
\* bounds in hundredths, best band first
BandStatus(v, excellent, good, warning, critical) ==
    CASE AtLeast(v, excellent) -> "excellent"
      [] ~AtLeast(v, excellent) /\ AtLeast(v, good) -> "good"
      [] ~AtLeast(v, good) /\ AtLeast(v, warning) -> "warning"
      [] ~AtLeast(v, warning) /\ AtLeast(v, critical) -> "critical"
      [] ~AtLeast(v, critical) -> "severe"

(* C17: the health status of an index is that of the first band, from    *)
(* the top, whose inclusive lower bound it reaches: CPI from 1.10          *)
(* excellent, from 1.00 good, from 0.90 warning, from 0.80 critical, below *)
(* severe; SPI from 1.05 excellent, from 0.95 good, from 0.85 warning,     *)
(* from 0.70 critical, below severe; the status is "unknown" exactly for   *)
(* an absent index.  CPI 1.10 is excellent and 1.099999 good; SPI 0.70 is  *)
(* critical and 0.699999 severe.                                           *)
C17_HealthBands ==
    /\ pc = "cost health" =>
          /\ analysis.status = "unknown" <=> index = NoneV
          /\ index # NoneV => analysis.status = BandStatus(index, 110, 100, 90, 80)
          /\ index = Fraction(110, 100) => analysis.status = "excellent"
          /\ index = Fraction(1099999, 1000000) => analysis.status = "good"
    /\ pc = "schedule health" =>
          /\ analysis.status = "unknown" <=> index = NoneV
          /\ index # NoneV => analysis.status = BandStatus(index, 105, 95, 85, 70)
          /\ index = Fraction(70, 100) => analysis.status = "critical"
          /\ index = Fraction(699999, 1000000) => analysis.status = "severe"

\* the SPI 0.70, the lower bound of its band, is assessed "critical"
C17_Witness ==
    /\ pc = "schedule health"
    /\ index = Fraction(70, 100)
    /\ analysis.status = "critical"

\* the position of the first line of the report that contains the label,
\* 0 if none does
FirstLineWith(label) ==
    LET hits == {i \in 1..Len(ReportLines) : Contains(ReportLines[i], label)}
    IN  IF hits = {} THEN 0 ELSE CHOOSE i \in hits : \A j \in hits : i <= j

\* the amount a line states after the label, "R$" removed
AmountAfter(line, label) == float(Strip(Remove(After(line, label), <<"R", "$">>)))

\* the record holds, under the key, the amount of the first line of the
\* report that contains the label, when that line states one
FirstMatchWins(record, key, label) ==
    LET first == FirstLineWith(label)
    IN  (first # 0 /\ AmountAfter(ReportLines[first], label) # ValueError) =>
            /\ key \in DOMAIN record
            /\ record[key] = AmountAfter(ReportLines[first], label)

(* C18: when several lines of a report contain the same label, the        *)
(* extracted value is that of the first of them: first match wins, for     *)
(* the schedule and the cost extraction.                                   *)
C18_FirstMatchWins ==
    /\ ScheduleSuccess =>
          /\ FirstMatchWins(analysis.schedule_status, "valor_agregado", ScheduleLiterals.valor_agregado)
          /\ FirstMatchWins(analysis.schedule_status, "valor_planejado", ScheduleLiterals.valor_planejado)
    /\ CostSuccess =>
          /\ FirstMatchWins(analysis.cost_status, "valor_agregado", ScheduleLiterals.valor_agregado)
          /\ FirstMatchWins(analysis.cost_status, "custo_real", CostLiterals.custo_real)

\* the label or section header whose line fills the key
KeyLabel(key) ==
    CASE key = "status" -> ScheduleLiterals.status_atual
      [] key = "percentual_conclusao" -> ScheduleLiterals.percentual_conclusao
      [] key = "data_inicio" -> ScheduleLiterals.data_inicio
      [] key = "data_termino_planejada" -> ScheduleLiterals.data_termino_planejada
      [] key = "data_termino_real" -> ScheduleLiterals.data_termino_real
      [] key = "atraso_dias" -> ScheduleLiterals.atraso_atual
      [] key = "motivo_atraso" -> ScheduleLiterals.motivo_atraso
      [] key = "spi" -> ScheduleLiterals.spi
      [] key = "valor_planejado" -> ScheduleLiterals.valor_planejado
      [] key = "valor_agregado" -> ScheduleLiterals.valor_agregado
      [] key = "tarefas_criticas" -> ScheduleLiterals.tarefas_criticas
      [] key = "tarefas_atrasadas" -> ScheduleLiterals.tarefas_atrasadas
      [] key = "orcamento_inicial" -> CostLiterals.orcamento_inicial
      [] key = "custo_real" -> CostLiterals.custo_real
      [] key = "desvio_orcamento" -> CostLiterals.desvio_orcamento
      [] key = "cpi" -> CostLiterals.cpi
      [] key = "estimativa_conclusao" -> CostLiterals.estimativa_conclusao
      [] key = "estimativa_termino" -> CostLiterals.estimativa_termino
      [] key = "variacao_termino" -> CostLiterals.variacao_termino
      [] key = "categorias_custos" -> CostLiterals.categorias

\* every key of the record, the derived index apart, has its label or
\* header in the report and holds no empty list or empty mapping
OnlyFoundKeys(record, derived) ==
    \A key \in DOMAIN record \ {derived} :
        /\ Contains(file.content, KeyLabel(key))
        /\ record[key] \notin {ListOf(<<>>), DictOf(<<>>)}

(* C19: the extracted mapping has a key only if its label or section      *)
(* header occurs in the report text: a field that is not found is absent   *)
(* and never set to a placeholder such as an empty list or mapping.        *)
C19_KeysOnlyIfFound ==
    /\ ScheduleSuccess => OnlyFoundKeys(analysis.schedule_status, "spi")
    /\ CostSuccess => OnlyFoundKeys(analysis.cost_status, "cpi")

\* text.replace(",", ".")
CommaToPeriod(text) == [i \in 1..Len(text) |-> IF text[i] = "," THEN "." ELSE text[i]]

\* the number a text in the input format of the reports states: "R$" and
\* "%" dropped, the "." of the thousands dropped, the decimal "," read as
\* a point
FormatNumber(text) ==
    float(CommaToPeriod(Remove(Remove(Remove(text, <<"R", "$">>), <<"%">>), <<".">>)))

\* when just one line of the report contains the label and its value has
\* a decimal comma, the record holds under the key the number it states
FormatParsed(record, key, label) ==
    LET hits == {i \in 1..Len(ReportLines) : Contains(ReportLines[i], label)}
        line == ReportLines[CHOOSE i \in hits : TRUE]
    IN  (Cardinality(hits) = 1 /\ Contains(After(line, label), <<",">>)) =>
            /\ key \in DOMAIN record
            /\ record[key] = FormatNumber(After(line, label))

(* C20: a numeric field written in the input format of the reports ("R$", *)
(* "." for the thousands and "," for the decimals, or a number followed by *)
(* "%") is extracted as the number it states: "R$ 1.234,56" as 1234.56 and *)
(* "8,5%" as 8.5.                                                          *)
C20_FormattedNumbers ==
    /\ ScheduleSuccess =>
          /\ FormatParsed(analysis.schedule_status, "valor_planejado", ScheduleLiterals.valor_planejado)
          /\ FormatParsed(analysis.schedule_status, "percentual_conclusao",
                          ScheduleLiterals.percentual_conclusao)
    /\ CostSuccess =>
          /\ FormatParsed(analysis.cost_status, "orcamento_inicial", CostLiterals.orcamento_inicial)
          /\ FormatParsed(analysis.cost_status, "custo_real", CostLiterals.custo_real)
          /\ FormatParsed(analysis.cost_status, "desvio_orcamento", CostLiterals.desvio_orcamento)
----------------------------------------------------------------------------
(* The agents' results on missing, empty and incomplete reports *)

\* an analysis method has returned or raised
Analysed == pc \in {"schedule analysed", "cost analysed"}

\* the method returned a dict with the entry
Returned_with(key) == "status" \in DOMAIN analysis /\ key \in DOMAIN analysis

(* C21: analysing a path whose file is missing or whose file is empty     *)
(* returns the error result, status "error" with an error text and no     *)
(* field mapping, health or recommendations; never a success result.      *)
C21_NotFound ==
    Analysed /\ (~file.exists \/ file.content = <<>>) =>
        /\ DOMAIN analysis = {"status", "error"}
        /\ analysis.status = "error"

\* the health entry of a result
HealthOf(result) ==
    IF "schedule_health" \in DOMAIN result THEN result.schedule_health
    ELSE result.cost_health

\* the status record of a result
StatusOf(result) ==
    IF "schedule_status" \in DOMAIN result THEN result.schedule_status
    ELSE result.cost_status

(* C22: for every content of an existing file the two analysis methods    *)
(* return, never raise: a success result with a health assessment and a   *)
(* recommendation list; when the record has no index after derivation the *)
(* health is "unknown" and the result is complete all the same.           *)
C22_NeverRaises ==
    Analysed /\ file.exists =>
        /\ Returned_with("recommendations")
        /\ analysis.status = "success"
        /\ {"schedule_health", "cost_health"} \cap DOMAIN analysis # {}
        /\ {"spi", "cpi"} \cap DOMAIN StatusOf(analysis) = {} =>
               HealthOf(analysis).status = "unknown"

----------------------------------------------------------------------------
(* The processor's results, stated on the status text *)

\* the processor returned its result dict for an existing file
TextSuccess ==
    pc = "text processed" /\ "status" \in DOMAIN analysis /\ analysis.status = "success"

\* the text contains the phrases one after the other
RECURSIVE InOrder(_, _)
InOrder(text, phrases) ==
    \/ phrases = <<>>
    \/ /\ Find(text, Head(phrases), 1) # 0
       /\ InOrder(SubSeq(text, Find(text, Head(phrases), 1) + Len(Head(phrases)), Len(text)),
                  Tail(phrases))

\* the metric is in the record with the value n / d
MetricIs(metrics, key, n, d) ==
    key \in DOMAIN metrics /\ NumOf(metrics[key]) * d = n * DenOf(metrics[key])

(* C23: a text containing "50% concluído", then "SPI de 0.85", then       *)
(* "Atraso de 10 dias" yields completion_percentage = 50.0, spi = 0.85    *)
(* and delay_days = 10; the schedule health of that spi is "warning"; no  *)
(* scope change is detected.                                              *)
C23_EndToEnd ==
    /\ pc = "text processed"
    /\ file.exists
    /\ InOrder(file.content, <<Phrase_concluido, Phrase_spi_de, Phrase_atraso>>)
    =>  /\ TextSuccess
        /\ MetricIs(analysis.metrics, "completion_percentage", 50, 1)
        /\ MetricIs(analysis.metrics, "spi", 85, 100)
        /\ MetricIs(analysis.metrics, "delay_days", 10, 1)
        /\ _evaluate_schedule_health(analysis.metrics["spi"]).status = "warning"
        /\ ~analysis.metrics["scope_change_detected"].b

\* a letter without its accent
Unaccent(c) ==
    CASE c \in {"á", "ã", "â", "à"} -> "a"
      [] c = "ç" -> "c"
      [] c \in {"é", "ê"} -> "e"
      [] c = "í" -> "i"
      [] c \in {"ó", "õ", "ô"} -> "o"
      [] c = "ú" -> "u"
      [] OTHER -> c

\* the text in lower case without accents
Fold(text) == [i \in 1..Len(text) |-> Unaccent(LowerChar(text[i]))]

\* the text mentions one of the phrases, whatever the case and the accents
Mentions(text, phrases) == \E p \in phrases : Contains(Fold(text), Fold(p))

\* the phrases that mention a scope change, and a risk
ScopeChangePhrases ==
    {<<"m","u","d","a","n","ç","a"," ","d","e"," ","e","s","c","o","p","o">>,
     <<"a","l","t","e","r","a","ç","ã","o"," ","d","e"," ","e","s","c","o",
        "p","o">>,
     <<"e","s","c","o","p","o"," ","a","l","t","e","r","a","d","o">>}
RiskPhrases ==
    {<<"r","i","s","c","o"," ","i","d","e","n","t","i","f","i","c","a","d",
        "o">>,
     <<"n","o","v","o"," ","r","i","s","c","o">>,
     <<"a","m","e","a","ç","a">>,
     <<"p","r","o","b","l","e","m","a"," ","p","o","t","e","n","c","i","a",
        "l">>}

(* C27: the two keyword detectors are case-insensitive and report what    *)
(* the text mentions: scope_change_detected is true exactly when the text *)
(* mentions "mudança de escopo", "alteração de escopo" or "escopo         *)
(* alterado", with or without the accents; risk_detected is true exactly  *)
(* when the text contains "risco identificado", "novo risco", "ameaça" or *)
(* "problema potencial".                                                  *)
C27_KeywordDetectors ==
    TextSuccess =>
        /\ analysis.metrics["scope_change_detected"].b
               <=> Mentions(file.content, ScopeChangePhrases)
        /\ analysis.metrics["risk_detected"].b
               <=> Mentions(file.content, RiskPhrases)

----------------------------------------------------------------------------
(* The reports, stated on the analysis result they render *)

\* generate_report has returned or raised, on a success result
Reported ==
    pc \in {"schedule reported", "cost reported"} /\ analysis.status = "success"

\* the numeric entries a report shows with two decimals
NumericFields ==
    {"spi", "cpi", "orcamento_inicial", "custo_real", "desvio_orcamento",
     "valor_agregado", "estimativa_conclusao", "estimativa_termino",
     "variacao_termino"}

(* C24: report rendering does not crash on absent values: for every        *)
(* success result, whichever of the numeric fields are present,            *)
(* generate_report returns a report that shows the number for a present    *)
(* field and the "not specified" / "not calculated" placeholder for an     *)
(* absent one.                                                             *)
C24_ReportRenders ==
    Reported =>
        /\ report.outcome = "report"
        /\ \A k \in NumericFields \cap DOMAIN report.fields :
               report.fields[k] =
                   IF k \in DOMAIN StatusOf(analysis)
                   THEN StrOf(FixedPoint(StatusOf(analysis)[k], 2))
                   ELSE IF k \in {"spi", "cpi"} THEN Nao_calculado
                   ELSE Nao_especificado

----------------------------------------------------------------------------
(* Evaluations that share an engine *)

\* what the worker's call returns when it runs alone on a fresh engine
Alone(worker) ==
    IF worker.args.method = "validate"
    THEN validate(LoadRules, worker.args.domain, worker.args.data)
    ELSE validate_recommendations(LoadRules, worker.args.domain,
                                  worker.args.recommendations, worker.args.data)

(* C25: validate and validate_recommendations modify neither the rule     *)
(* catalogs of the engine nor the data record or the recommendation list  *)
(* passed in; under any interleaving of the evaluations of several        *)
(* workers on one engine, each evaluation returns what it returns when it *)
(* runs alone.                                                            *)
C25_SharedEngine ==
    pc = "workers" =>
        /\ rules = LoadRules
        /\ \A w \in DOMAIN workers :
              /\ workers[w].data = workers[w].args.data
              /\ workers[w].recommendations = workers[w].args.recommendations
              /\ workers[w].at = "returned" => workers[w].result = Alone(workers[w])

\* two workers evaluated the same catalog, the second one entering the
\* loop while the first was in it, and both have returned
C25_Witness ==
    /\ pc = "workers"
    /\ \A w \in DOMAIN workers : workers[w].at = "returned"
    /\ \E v, w \in DOMAIN workers :
          /\ v # w
          /\ workers[v].args.domain = workers[w].args.domain
          /\ workers[v].args.method = "validate"
          /\ workers[w].args.method = "validate_recommendations"
          /\ workers[v].result.messages # <<>>
          /\ workers[w].result.validation_messages # <<>>

----------------------------------------------------------------------------
(* Section extraction, stated on the lines of the text *)

\* the headers of the schedule sections, and of the cost section
ScheduleHeaders == {ScheduleLiterals.tarefas_criticas, ScheduleLiterals.tarefas_atrasadas}
CostHeaders == {CostLiterals.categorias}

\* the line is a header of one of the sections, or a terminator: a blank
\* line or a line that starts the report title
IsMarker(line, headers) ==
    \/ \E h \in headers : Contains(line, h)
    \/ Strip(line) = <<>>
    \/ StartsWith(line, ScheduleLiterals.relatorio)

\* the line is a bullet: "- " and a text, possibly indented
IsBulletLine(line, headers) ==
    ~IsMarker(line, headers) /\ StartsWith(Strip(line), <<"-", " ">>)

\* the bullet without its "- " prefix
BulletText(line) == Strip(SubSeq(Strip(line), 3, Len(Strip(line))))

\* the closest header-or-terminator line before line i is the header
OpenAt(lines, i, header, headers) ==
    \E j \in 1..(i - 1) :
        /\ Contains(lines[j], header)
        /\ \A k \in (j + 1)..(i - 1) : ~IsMarker(lines[k], headers)

\* the bullets of the section of the header, in the order of the text
RECURSIVE SectionBullets(_, _, _, _)
SectionBullets(lines, i, header, headers) ==
    IF i > Len(lines) THEN <<>>
    ELSE (IF IsBulletLine(lines[i], headers) /\ OpenAt(lines, i, header, headers)
          THEN <<BulletText(lines[i])>> ELSE <<>>)
         \o SectionBullets(lines, i + 1, header, headers)

\* the name of a category bullet: what precedes its colon
CategoryName(bullet) == Strip(SplitOn(bullet, <<":">>)[1])

\* a sequence without the repetitions of an element
RECURSIVE Distinct(_)
Distinct(seq) ==
    IF seq = <<>> THEN <<>>
    ELSE LET front == Distinct(SubSeq(seq, 1, Len(seq) - 1))
             last == seq[Len(seq)]
         IN  IF \E i \in 1..Len(front) : front[i] = last THEN front
             ELSE Append(front, last)

(* C26: section extraction is a state machine over the lines: a bullet is *)
(* captured into a section's list exactly when the closest header or      *)
(* terminator line before it is that section's header; a blank line or a  *)
(* "RELATÓRIO" line closes the section, another header switches to its    *)
(* section; no bullet is captured twice or outside a section; the bullets *)
(* captured keep the order of the text, the "- " prefix removed.  For the *)
(* cost categories, kept in a mapping, the names captured are those of    *)
(* the bullets of the section, in the order of their first occurrence.    *)
C26_SectionStateMachine ==
    /\ pc = "schedule extracted" =>
          /\ analysis["tarefas_criticas"].items =
                 SectionBullets(ReportLines, 1, ScheduleLiterals.tarefas_criticas,
                                ScheduleHeaders)
          /\ analysis["tarefas_atrasadas"].items =
                 SectionBullets(ReportLines, 1, ScheduleLiterals.tarefas_atrasadas,
                                ScheduleHeaders)
    /\ pc = "cost extracted" =>
          LET bullets == SectionBullets(ReportLines, 1, CostLiterals.categorias, CostHeaders)
              items == analysis["categorias_custos"].items
          IN  [i \in 1..Len(items) |-> items[i][1]] =
                  Distinct([i \in 1..Len(bullets) |-> CategoryName(bullets[i])])

\* the same statement for the schedule sections alone
ScheduleSectionsConform ==
    pc = "schedule extracted" => C26_SectionStateMachine

\* the same statement for the cost texts whose amounts are plain decimals
PlainAmountsConform ==
    (\A i \in 1..Len(ReportLines) : ReportLines[i] # Line_categoria_formatted)
        => C26_SectionStateMachine

----------------------------------------------------------------------------
\* the "require" rules of the catalog whose condition raises on the record
RaisingRequired == {i \in 1..Len(Catalog) : Catalog[i].action = "require" /\ Raises(Catalog[i])}

\* the element occurs in the sequence
Occurs(seq, e) == \E j \in 1..Len(seq) : seq[j] = e

(* C28: an "error" message never makes a validation invalid.  When the    *)
(* condition of a "require" rule raises, validate records the "error"     *)
(* message of the rule and does not clear valid for it: an invalid result *)
(* always has a fired "require" message whose requirement flag is not     *)
(* set, and a record on which every fired "require" rule has its flag is  *)
(* valid however many rules raised.  validate_recommendations lists the   *)
(* name of a raising rule in neither required nor missing topics and its  *)
(* text, like the text of its "error" message, in no additional           *)
(* recommendation.                                                        *)
C28_ErrorNeverInvalidates ==
    /\ (Validated /\ Known) =>
          LET messages == validation_results.messages
          IN  /\ \A i \in RaisingRequired : Occurs(messages, ErrorMessage(Catalog[i]))
              /\ ~validation_results.valid =>
                     \E i \in 1..Len(Catalog) :
                         /\ Catalog[i].action = "require"
                         /\ Occurs(messages, FiredMessage(Catalog[i]))
                         /\ ~FlagSet(Catalog[i])
    /\ (Returned /\ Known) =>
          \A i \in RaisingRequired :
              /\ ~Occurs(recommendation_validation.missing_topics, Catalog[i].name)
              /\ ~Occurs(recommendation_validation.additional_recommendations,
                         Catalog[i].message)
              /\ ~Occurs(recommendation_validation.additional_recommendations,
                         ErrorMessage(Catalog[i]).message)

\* validate_recommendations has returned on a record on which a "require"
\* rule raised; validate returned valid = true with the "error" message,
\* and another rule's text is among the additional recommendations
C28_Witness ==
    /\ Returned /\ Known
    /\ RaisingRequired # {}
    /\ validation_results.valid
    /\ SomeMessage(validation_results.messages, "error")
    /\ recommendation_validation.additional_recommendations # <<>>

----------------------------------------------------------------------------
\* the rule of the id fired in the evaluation just made
Fired(id) ==
    \E j \in 1..Len(validation_results.messages) :
        /\ validation_results.messages[j].rule_id = id
        /\ validation_results.messages[j].action # "error"

\* the rules of the two catalogs whose condition reads the index
IndexRules == {"SCH-001", "SCH-002", "SCH-005", "COST-001", "COST-002", "COST-005"}

(* C29: the health assessment and the rules agree on one index.  When the *)
(* health of an SPI is "critical" or "severe", SCH-002 (recovery plan)     *)
(* fires on a record that holds the SPI, and when it is "severe" SCH-001   *)
(* (notification) fires too; likewise COST-002 and COST-001 for a CPI.     *)
(* When the health is "good" or "excellent", no rule that reads the index  *)
(* fires, critical tasks or not.                                           *)
C29_HealthAgreesWithRules ==
    /\ pc = "schedule validated" =>
          /\ analysis.status \in {"critical", "severe"} => Fired("SCH-002")
          /\ analysis.status = "severe" => Fired("SCH-001")
          /\ analysis.status \in {"good", "excellent"} => \A id \in IndexRules : ~Fired(id)
    /\ pc = "cost validated" =>
          /\ analysis.status \in {"critical", "severe"} => Fired("COST-002")
          /\ analysis.status = "severe" => Fired("COST-001")
          /\ analysis.status \in {"good", "excellent"} => \A id \in IndexRules : ~Fired(id)

\* a CPI assessed "critical", at the lower bound of the band of COST-001:
\* COST-002 fired on it and COST-001 did not
C29_Witness ==
    /\ pc = "cost validated"
    /\ index = Fraction(80, 100)
    /\ analysis.status = "critical"
    /\ Fired("COST-002")
    /\ ~Fired("COST-001")

----------------------------------------------------------------------------
\* the analysis returned a success result
Succeeded == "status" \in DOMAIN analysis /\ analysis.status = "success"

\* the status record of the successful analysis just made
StatusRecord ==
    IF pc \in {"schedule analysed", "schedule validated"}
    THEN analysis.schedule_status ELSE analysis.cost_status

\* the rules that fired in the evaluation just made
FiredRules == {id \in {Catalog[i].id : i \in 1..Len(Catalog)} : Fired(id)}

(* C30: the record of a successful schedule analysis (extraction, then    *)
(* derivation of the SPI) never holds the keys duracao_planejada or        *)
(* replanejamento, and the schedule catalog evaluated on it never fires    *)
(* SCH-003 or SCH-004; the record of a successful cost analysis never      *)
(* holds realocacao_orcamento, and COST-004 never fires on it.  The rules  *)
(* that fire on an extracted record are among those on spi, cpi,           *)
(* desvio_orcamento and tarefas_criticas: SCH-001, SCH-002, SCH-005,       *)
(* COST-001, COST-002, COST-003, COST-005.                                 *)
C30_ExtractedRecordsReach ==
    /\ (pc \in {"schedule analysed", "schedule validated"} /\ Succeeded) =>
          /\ "duracao_planejada" \notin DOMAIN StatusRecord
          /\ "replanejamento" \notin DOMAIN StatusRecord
    /\ (pc \in {"cost analysed", "cost validated"} /\ Succeeded) =>
          "realocacao_orcamento" \notin DOMAIN StatusRecord
    /\ pc = "schedule validated" =>
          /\ ~Fired("SCH-003") /\ ~Fired("SCH-004")
          /\ FiredRules \subseteq {"SCH-001", "SCH-002", "SCH-005"}
    /\ pc = "cost validated" =>
          /\ ~Fired("COST-004")
          /\ FiredRules \subseteq {"COST-001", "COST-002", "COST-003", "COST-005"}

\* the schedule catalog evaluated on a record whose SPI was derived from
\* the earned and planned values, no SPI being stated: SCH-002 fired
C30_Witness ==
    /\ pc = "schedule validated"
    /\ \A i \in 1..Len(ReportLines) : ~Contains(ReportLines[i], ScheduleLiterals.spi)
    /\ "spi" \in DOMAIN StatusRecord
    /\ "atraso_dias" \in DOMAIN StatusRecord
    /\ FiredRules = {"SCH-002"}

\* every number of an extracted record that a rule compares with ">" is a
\* whole number of thousandths, so the engine's comparison is exact
DeviationsExact ==
    (pc \in {"cost analysed", "cost validated"} /\ Succeeded
        /\ "desvio_orcamento" \in DOMAIN StatusRecord)
        => WholeThousandths(StatusRecord["desvio_orcamento"])

\* COST-003 fires on an extracted record
DeviationRuleFires == pc = "cost validated" /\ Fired("COST-003")
\* SCH-005 fires on an extracted record
CriticalTasksRuleFires == pc = "schedule validated" /\ Fired("SCH-005")

====
